---------------------------- MODULE Spec2Model ----------------------------
(***************************************************************************)
(* Multi-agent orchestration engine of the MoEngage support assistant:     *)
(* intent classification, the specialists' transfer decisions and the      *)
(* control-transfer protocol over one session's state.                     *)
(*                                                                         *)
(* Text is modelled as a sequence of one-character strings, so that        *)
(* lower(), strip(), len() and the substring test `p in q` are computed    *)
(* the way the Python code computes them.                                  *)
(***************************************************************************)
EXTENDS Integers, Sequences, FiniteSets, TLC

\* ------------------------------------------------------------------ text

UpperChars == <<"A","B","C","D","E","F","G","H","I","J","K","L","M",
                "N","O","P","Q","R","S","T","U","V","W","X","Y","Z">>
LowerChars == <<"a","b","c","d","e","f","g","h","i","j","k","l","m",
                "n","o","p","q","r","s","t","u","v","w","x","y","z">>
WhiteChars == {" ", "\t", "\n"}

\* str.lower() on the upper-case letters
LowerOf == [c \in {UpperChars[i] : i \in 1..Len(UpperChars)} |->
              LowerChars[CHOOSE i \in 1..Len(UpperChars) : UpperChars[i] = c]]

\* str.lower() on one character
LowerChar(c) == IF c \in DOMAIN LowerOf THEN LowerOf[c] ELSE c

\* str.lower()
Lower(s) == [i \in 1..Len(s) |-> LowerChar(s[i])]

\* str.strip(): drops leading and trailing whitespace
Strip(s) ==
  IF \A i \in 1..Len(s) : s[i] \in WhiteChars THEN <<>>
  ELSE LET lo == CHOOSE i \in 1..Len(s) :
                   /\ s[i] \notin WhiteChars
                   /\ \A j \in 1..(i - 1) : s[j] \in WhiteChars
           hi == CHOOSE i \in 1..Len(s) :
                   /\ s[i] \notin WhiteChars
                   /\ \A j \in (i + 1)..Len(s) : s[j] \in WhiteChars
       IN  SubSeq(s, lo, hi)

\* `p in s` for Python strings: p occurs in s as a contiguous substring
Contains(s, p) ==
  \E i \in 1..(Len(s) - Len(p) + 1) :
     \A j \in 1..Len(p) : s[i + j - 1] = p[j]

\* any(p in s for p in patterns)
AnyIn(patterns, s) == \E k \in 1..Len(patterns) : Contains(s, patterns[k])

\* number of patterns of the list that occur in s (used to state claims only)
RECURSIVE CountIn(_, _)
CountIn(patterns, s) ==
  IF patterns = <<>> THEN 0
  ELSE (IF Contains(s, Head(patterns)) THEN 1 ELSE 0) + CountIn(Tail(patterns), s)

\* ------------------------------------------------------ trigger tables

\* conversation_manager.py:53
greeting_patterns ==
  <<
    <<"h","i">>,
    <<"h","e","l","l","o">>,
    <<"h","e","y">>,
    <<"g","o","o","d"," ","m","o","r","n","i","n","g">>,
    <<"g","o","o","d"," ","a","f","t","e","r","n","o","o","n">>,
    <<"g","o","o","d"," ","e","v","e","n","i","n","g">>
  >>

\* conversation_manager.py:58-62
followup_patterns ==
  <<
    <<"w","h","a","t"," ","a","b","o","u","t">>,
    <<"w","h","a","t"," ","i","f">>,
    <<"c","a","n"," ","y","o","u"," ","a","l","s","o">>,
    <<"h","o","w"," ","a","b","o","u","t">>,
    <<"a","n","d"," ","w","h","a","t">>,
    <<"a","l","s","o">>,
    <<"a","d","d","i","t","i","o","n","a","l","l","y">>,
    <<"f","u","r","t","h","e","r","m","o","r","e">>,
    <<"w","h","a","t"," ","e","l","s","e">>,
    <<"a","n","y"," ","o","t","h","e","r">>,
    <<"f","o","l","l","o","w"," ","u","p">>,
    <<"m","o","r","e"," ","d","e","t","a","i","l","s">>,
    <<"e","x","p","l","a","i","n"," ","m","o","r","e">>,
    <<"t","e","l","l"," ","m","e"," ","m","o","r","e">>
  >>

\* conversation_manager.py:70
context_keywords_technical ==
  <<
    <<"c","a","m","p","a","i","g","n">>,
    <<"d","e","l","i","v","e","r","y">>,
    <<"e","r","r","o","r">>,
    <<"i","s","s","u","e">>,
    <<"p","r","o","b","l","e","m">>,
    <<"d","e","b","u","g">>,
    <<"f","i","x">>
  >>

\* conversation_manager.py:71
context_keywords_knowledge ==
  <<
    <<"h","o","w">>,
    <<"w","h","a","t">>,
    <<"e","x","p","l","a","i","n">>,
    <<"g","u","i","d","e">>,
    <<"s","e","t","u","p">>,
    <<"c","o","n","f","i","g","u","r","e">>
  >>

\* conversation_manager.py:72
context_keywords_ticket ==
  <<
    <<"t","i","c","k","e","t">>,
    <<"s","u","m","m","a","r","y">>,
    <<"a","n","a","l","y","z","e">>,
    <<"d","e","t","a","i","l","s">>
  >>

\* conversation_manager.py:80
ticket_patterns ==
  <<
    <<"t","i","c","k","e","t">>,
    <<"z","e","n","d","e","s","k">>,
    <<"s","u","m","m","a","r","i","z","e">>,
    <<"s","u","m","m","a","r","i","s","e">>,
    <<"s","u","m","m","a","r","y">>,
    <<"a","n","a","l","y","z","e"," ","t","i","c","k","e","t">>
  >>

\* conversation_manager.py:85-88
technical_patterns ==
  <<
    <<"c","a","m","p","a","i","g","n">>,
    <<"n","o","t"," ","d","e","l","i","v","e","r","i","n","g">>,
    <<"e","r","r","o","r">>,
    <<"f","a","i","l","e","d">>,
    <<"d","e","b","u","g">>,
    <<"i","s","s","u","e">>,
    <<"p","r","o","b","l","e","m">>,
    <<"a","p","i">>,
    <<"l","o","g","s">>,
    <<"d","e","l","i","v","e","r","y">>,
    <<"p","e","r","f","o","r","m","a","n","c","e">>,
    <<"r","a","t","e"," ","l","i","m","i","t">>
  >>

\* conversation_manager.py:93-96
knowledge_patterns ==
  <<
    <<"h","o","w"," ","t","o">>,
    <<"w","h","a","t"," ","i","s">>,
    <<"e","x","p","l","a","i","n">>,
    <<"s","e","t","u","p">>,
    <<"c","o","n","f","i","g","u","r","e">>,
    <<"g","u","i","d","e">>,
    <<"d","o","c","u","m","e","n","t","a","t","i","o","n">>,
    <<"h","e","l","p">>,
    <<"b","e","s","t"," ","p","r","a","c","t","i","c","e">>,
    <<"f","e","a","t","u","r","e">>
  >>

\* agent.py:101
legacy_greeting_patterns ==
  <<
    <<"h","e","y">>,
    <<"h","i">>,
    <<"h","e","l","l","o">>,
    <<"g","o","o","d"," ","m","o","r","n","i","n","g">>,
    <<"g","o","o","d"," ","a","f","t","e","r","n","o","o","n">>,
    <<"g","o","o","d"," ","e","v","e","n","i","n","g">>
  >>

\* agent.py:106
legacy_technical_patterns ==
  <<
    <<"c","a","m","p","a","i","g","n"," ","i","d">>,
    <<"n","o","t"," ","d","e","l","i","v","e","r","i","n","g">>,
    <<"e","r","r","o","r">>,
    <<"f","a","i","l","e","d">>,
    <<"i","s","s","u","e"," ","w","i","t","h"," ","c","a","m","p","a","i","g","n">>,
    <<"d","e","b","u","g">>,
    <<"l","o","g","s">>,
    <<"a","p","i">>
  >>

\* agent.py:111
legacy_knowledge_patterns ==
  <<
    <<"h","o","w"," ","t","o">>,
    <<"w","h","a","t"," ","i","s">>,
    <<"e","x","p","l","a","i","n">>,
    <<"d","o","c","u","m","e","n","t","a","t","i","o","n">>,
    <<"g","u","i","d","e">>,
    <<"s","e","t","u","p">>,
    <<"c","o","n","f","i","g","u","r","e">>
  >>

\* technical_specialist.py:200-203 (same list in push_specialist.py:153-156, whatsapp_specialist.py:283-286)
non_technical_patterns ==
  <<
    <<"h","o","w"," ","t","o">>,
    <<"w","h","a","t"," ","i","s">>,
    <<"e","x","p","l","a","i","n">>,
    <<"d","o","c","u","m","e","n","t","a","t","i","o","n">>,
    <<"g","u","i","d","e">>,
    <<"h","e","l","p">>,
    <<"t","u","t","o","r","i","a","l">>,
    <<"s","e","t","u","p">>,
    <<"c","o","n","f","i","g","u","r","e">>
  >>

\* technical_specialist.py:207 (push_specialist.py:158, whatsapp_specialist.py:290)
tech_words ==
  <<
    <<"e","r","r","o","r">>,
    <<"i","s","s","u","e">>,
    <<"p","r","o","b","l","e","m">>,
    <<"d","e","b","u","g">>,
    <<"f","i","x">>
  >>

\* technical_specialist.py:211 (same list in the push, whatsapp, knowledge and ticket specialists)
general_patterns ==
  <<
    <<"t","h","a","n","k"," ","y","o","u">>,
    <<"t","h","a","n","k","s">>,
    <<"t","h","a","t","'","s"," ","a","l","l">>,
    <<"n","o"," ","m","o","r","e"," ","q","u","e","s","t","i","o","n","s">>
  >>

\* knowledge_specialist.py:218-221
knowledge_technical_patterns ==
  <<
    <<"e","r","r","o","r">>,
    <<"i","s","s","u","e">>,
    <<"p","r","o","b","l","e","m">>,
    <<"d","e","b","u","g">>,
    <<"f","i","x">>,
    <<"n","o","t"," ","w","o","r","k","i","n","g">>,
    <<"f","a","i","l","e","d">>,
    <<"d","e","l","i","v","e","r","y">>,
    <<"a","p","i">>,
    <<"l","o","g","s">>
  >>

\* ticket_specialist.py:192-195
ticket_technical_patterns ==
  <<
    <<"h","o","w"," ","t","o"," ","f","i","x">>,
    <<"i","m","p","l","e","m","e","n","t">>,
    <<"d","e","b","u","g">>,
    <<"t","e","c","h","n","i","c","a","l"," ","s","o","l","u","t","i","o","n">>,
    <<"a","p","i">>,
    <<"c","o","n","f","i","g","u","r","a","t","i","o","n">>,
    <<"s","e","t","u","p">>,
    <<"t","r","o","u","b","l","e","s","h","o","o","t">>
  >>

\* ticket_specialist.py:202-204
ticket_documentation_patterns ==
  <<
    <<"d","o","c","u","m","e","n","t","a","t","i","o","n">>,
    <<"g","u","i","d","e">>,
    <<"h","o","w"," ","t","o">>,
    <<"t","u","t","o","r","i","a","l">>,
    <<"b","e","s","t"," ","p","r","a","c","t","i","c","e">>
  >>

\* followup_specialist.py:182-185
technical_deep_patterns ==
  <<
    <<"d","e","b","u","g">>,
    <<"l","o","g","s">>,
    <<"a","p","i"," ","e","r","r","o","r">>,
    <<"t","e","c","h","n","i","c","a","l"," ","d","e","t","a","i","l","s">>,
    <<"i","n","v","e","s","t","i","g","a","t","e">>,
    <<"r","o","o","t"," ","c","a","u","s","e">>,
    <<"p","e","r","f","o","r","m","a","n","c","e">>,
    <<"r","a","t","e"," ","l","i","m","i","t">>,
    <<"c","o","n","f","i","g","u","r","a","t","i","o","n">>
  >>

\* followup_specialist.py:191-194
followup_documentation_patterns ==
  <<
    <<"h","o","w"," ","t","o">>,
    <<"s","t","e","p"," ","b","y"," ","s","t","e","p">>,
    <<"g","u","i","d","e">>,
    <<"d","o","c","u","m","e","n","t","a","t","i","o","n">>,
    <<"t","u","t","o","r","i","a","l">>,
    <<"s","e","t","u","p">>,
    <<"c","o","n","f","i","g","u","r","e">>,
    <<"b","e","s","t"," ","p","r","a","c","t","i","c","e">>,
    <<"f","e","a","t","u","r","e"," ","e","x","p","l","a","n","a","t","i","o","n">>
  >>

\* followup_specialist.py:200-203
topic_change_patterns ==
  <<
    <<"d","i","f","f","e","r","e","n","t"," ","q","u","e","s","t","i","o","n">>,
    <<"n","e","w"," ","i","s","s","u","e">>,
    <<"a","n","o","t","h","e","r"," ","p","r","o","b","l","e","m">>,
    <<"s","w","i","t","c","h"," ","t","o","p","i","c">>,
    <<"s","o","m","e","t","h","i","n","g"," ","e","l","s","e">>,
    <<"d","i","f","f","e","r","e","n","t"," ","m","a","t","t","e","r">>
  >>

\* conversation_manager.py:40
NoQueryProvided == <<"N","o"," ","q","u","e","r","y"," ","p","r","o","v","i","d","e","d"," ","f","o","r"," ","t","h","i","s"," ","s","e","s","s","i","o","n",".">>

\* words the bounded utterances are built from
Vocabulary ==
  <<
    <<"h","i">>,
    <<"E","r","r","o","r">>,
    <<"c","a","m","p","a","i","g","n">>,
    <<"t","i","c","k","e","t">>,
    <<"e","x","p","l","a","i","n">>,
    <<"a","l","s","o">>,
    <<"o","k">>,
    <<" ">>
  >>

\* the utterances a user may send in a turn of the session
TurnUtteranceList ==
  <<
    <<"h","i">>,
    <<"o","k">>,
    <<"c","a","m","p","a","i","g","n"," ","e","r","r","o","r">>,
    <<"t","h","a","n","k","s">>,
    <<"c","a","m","p","a","i","g","n"," ","t","h","a","n","k","s">>,
    <<"e","x","p","l","a","i","n"," ","s","e","t","u","p">>,
    <<"e","x","p","l","a","i","n"," ","t","h","a","n","k","s">>,
    <<"t","i","c","k","e","t"," ","s","u","m","m","a","r","y">>,
    <<"a","l","s","o"," ","a"," ","n","e","w"," ","i","s","s","u","e">>,
    <<" "," ","H","i"," "," ">>,
    <<"e","x","p","l","a","i","n"," ","a","p","i">>
  >>

\* the push scenario of the design's end-to-end examples
PushScenario == <<"p","u","s","h"," ","c","a","m","p","a","i","g","n"," ","1","2","3","4","5"," ","n","o","t"," ","d","e","l","i","v","e","r","i","n","g",","," ","e","r","r","o","r"," ","F","C","M">>

\* ------------------------------------------------------------ agents

\* agent.py:312, the name the root agent is registered under
RootName == "MoEngageSupportChatManager"

Technical == "TechnicalTroubleshootAgent"
Push      == "PushTroubleshootAgent"
WhatsApp  == "WhatsAppTroubleshootAgent"
Knowledge == "KnowledgeSpecialist"
Ticket    == "TicketSpecialist"
FollowUp  == "FollowUpSpecialist"

\* the three specialists that share the technical transfer policy
TechnicalFamily == {Technical, Push, WhatsApp}

\* agent.py:301-308
specialist_agents == {Technical, Knowledge, FollowUp, Ticket, Push, WhatsApp}

\* agent.py:311-316: the agents a transfer can address
Addressable == {RootName} \cup specialist_agents

\* ------------------------------------------------- intent classifiers

\* context_keywords with only the technical row in the table
context_keywords_technical_row_only(current_context) ==
  CASE current_context = "technical" -> context_keywords_technical
    [] OTHER                         -> <<>>

\* conversation_manager.py:69-73, context_keywords[current_context];
\* <<>> when current_context is not a key of the table
context_keywords(current_context) ==
  CASE current_context = "technical" -> context_keywords_technical
    [] current_context = "knowledge" -> context_keywords_knowledge
    [] current_context = "ticket"    -> context_keywords_ticket
    [] OTHER                         -> <<>>

\* _classify_intent with the domain keyword rules tried before the
\* context-continuation rule
_classify_intent_domain_first(user_query, current_context, last_agent) ==
  LET query_lower == Strip(Lower(user_query))
  IN  IF AnyIn(greeting_patterns, query_lower) /\ Len(query_lower) < 25
        THEN "greeting"
      ELSE IF AnyIn(followup_patterns, query_lower) /\ current_context # ""
        THEN "followup"
      ELSE IF AnyIn(ticket_patterns, query_lower)
        THEN "ticket_analysis"
      ELSE IF AnyIn(technical_patterns, query_lower)
        THEN "technical_troubleshooting"
      ELSE IF AnyIn(knowledge_patterns, query_lower)
        THEN "knowledge_search"
      ELSE IF /\ current_context # "" /\ last_agent # ""
              /\ Len(query_lower) > 5
              /\ AnyIn(context_keywords(current_context), query_lower)
        THEN "followup"
      ELSE IF Len(Strip(query_lower)) < 5
        THEN "clarification"
      ELSE "general"

\* _classify_intent with the technical rule declared before the ticket rule
_classify_intent_technical_before_ticket(user_query, current_context, last_agent) ==
  LET query_lower == Strip(Lower(user_query))
  IN  IF AnyIn(greeting_patterns, query_lower) /\ Len(query_lower) < 25
        THEN "greeting"
      ELSE IF AnyIn(followup_patterns, query_lower) /\ current_context # ""
        THEN "followup"
      ELSE IF /\ current_context # "" /\ last_agent # ""
              /\ Len(query_lower) > 5
              /\ AnyIn(context_keywords(current_context), query_lower)
        THEN "followup"
      ELSE IF AnyIn(technical_patterns, query_lower)
        THEN "technical_troubleshooting"
      ELSE IF AnyIn(ticket_patterns, query_lower)
        THEN "ticket_analysis"
      ELSE IF AnyIn(knowledge_patterns, query_lower)
        THEN "knowledge_search"
      ELSE IF Len(Strip(query_lower)) < 5
        THEN "clarification"
      ELSE "general"

\* _classify_intent asking for clarification only below 2 characters
_classify_intent_short_below_2(user_query, current_context, last_agent) ==
  LET query_lower == Strip(Lower(user_query))
  IN  IF AnyIn(greeting_patterns, query_lower) /\ Len(query_lower) < 25
        THEN "greeting"
      ELSE IF AnyIn(followup_patterns, query_lower) /\ current_context # ""
        THEN "followup"
      ELSE IF /\ current_context # "" /\ last_agent # ""
              /\ Len(query_lower) > 5
              /\ AnyIn(context_keywords(current_context), query_lower)
        THEN "followup"
      ELSE IF AnyIn(ticket_patterns, query_lower)
        THEN "ticket_analysis"
      ELSE IF AnyIn(technical_patterns, query_lower)
        THEN "technical_troubleshooting"
      ELSE IF AnyIn(knowledge_patterns, query_lower)
        THEN "knowledge_search"
      ELSE IF Len(Strip(query_lower)) < 2
        THEN "clarification"
      ELSE "general"

\* _classify_intent falling through to the legacy orchestrator's default label
_classify_intent_legacy_default(user_query, current_context, last_agent) ==
  LET query_lower == Strip(Lower(user_query))
  IN  IF AnyIn(greeting_patterns, query_lower) /\ Len(query_lower) < 25
        THEN "greeting"
      ELSE IF AnyIn(followup_patterns, query_lower) /\ current_context # ""
        THEN "followup"
      ELSE IF /\ current_context # "" /\ last_agent # ""
              /\ Len(query_lower) > 5
              /\ AnyIn(context_keywords(current_context), query_lower)
        THEN "followup"
      ELSE IF AnyIn(ticket_patterns, query_lower)
        THEN "ticket_analysis"
      ELSE IF AnyIn(technical_patterns, query_lower)
        THEN "technical_troubleshooting"
      ELSE IF AnyIn(knowledge_patterns, query_lower)
        THEN "knowledge_search"
      ELSE IF Len(Strip(query_lower)) < 5
        THEN "clarification"
      ELSE "knowledge_only"

\* ConversationManager._classify_intent: the label for user_query under the
\* session's conversation_context and last_active_agent ("" when unset)
_classify_intent(user_query, current_context, last_agent) ==
  LET query_lower == Strip(Lower(user_query))
  IN  IF AnyIn(greeting_patterns, query_lower) /\ Len(query_lower) < 25
        THEN "greeting"
      ELSE IF AnyIn(followup_patterns, query_lower) /\ current_context # ""
        THEN "followup"
      ELSE IF /\ current_context # "" /\ last_agent # ""
              /\ Len(query_lower) > 5
              /\ AnyIn(context_keywords(current_context), query_lower)
        THEN "followup"
      ELSE IF AnyIn(ticket_patterns, query_lower)
        THEN "ticket_analysis"
      ELSE IF AnyIn(technical_patterns, query_lower)
        THEN "technical_troubleshooting"
      ELSE IF AnyIn(knowledge_patterns, query_lower)
        THEN "knowledge_search"
      ELSE IF Len(Strip(query_lower)) < 5
        THEN "clarification"
      ELSE "general"

\* WhatsAppSupportOrchestrator._classify_user_intent
_classify_user_intent(user_query) ==
  LET query_lower == Strip(Lower(user_query))
  IN  IF AnyIn(legacy_greeting_patterns, query_lower) /\ Len(query_lower) < 20
        THEN "greeting"
      ELSE IF AnyIn(legacy_technical_patterns, query_lower)
        THEN "technical_debug"
      ELSE IF AnyIn(legacy_knowledge_patterns, query_lower)
        THEN "knowledge_only"
      ELSE IF Len(Strip(query_lower)) < 5
        THEN "clarification"
      ELSE "knowledge_only"

\* ------------------------------------------------- transfer decisions
\* A decision is <<should_transfer, target_agent>>.

Retain == <<FALSE, "">>

\* TechnicalTroubleshootAgent / PushTroubleshootAgent /
\* WhatsAppTroubleshootAgent._should_transfer_control
technical_should_transfer_control(user_query) ==
  LET query_lower == Strip(Lower(user_query))
  IN  IF /\ AnyIn(non_technical_patterns, query_lower)
         /\ ~AnyIn(tech_words, query_lower)
        THEN <<TRUE, "KnowledgeSpecialist">>
      ELSE IF AnyIn(general_patterns, query_lower)
        THEN <<TRUE, "MoEngageSupportChatManager">>
      ELSE Retain

\* KnowledgeSpecialist._should_transfer_control
knowledge_should_transfer_control(user_query) ==
  LET query_lower == Strip(Lower(user_query))
  IN  IF AnyIn(knowledge_technical_patterns, query_lower)
        THEN <<TRUE, "TechnicalTroubleshootAgent">>
      ELSE IF AnyIn(general_patterns, query_lower)
        THEN <<TRUE, "ConversationManager">>
      ELSE Retain

\* TicketSpecialist._should_transfer_control
ticket_should_transfer_control(user_query) ==
  LET query_lower == Strip(Lower(user_query))
  IN  IF AnyIn(ticket_technical_patterns, query_lower)
        THEN <<TRUE, "TechnicalTroubleshootAgent">>
      ELSE IF AnyIn(ticket_documentation_patterns, query_lower)
        THEN <<TRUE, "KnowledgeSpecialist">>
      ELSE IF AnyIn(general_patterns, query_lower)
        THEN <<TRUE, "ConversationManager">>
      ELSE Retain

\* FollowUpSpecialist._analyze_transfer_need
_analyze_transfer_need(user_query) ==
  LET query_lower == Strip(Lower(user_query))
  IN  IF AnyIn(technical_deep_patterns, query_lower)
        THEN <<TRUE, "TechnicalTroubleshootAgent">>
      ELSE IF AnyIn(followup_documentation_patterns, query_lower)
        THEN <<TRUE, "KnowledgeSpecialist">>
      ELSE IF AnyIn(topic_change_patterns, query_lower)
        THEN <<TRUE, "ConversationManager">>
      ELSE Retain

\* the transfer decision of specialist `agent` on user_query
_should_transfer_control(agent, user_query) ==
  CASE agent \in TechnicalFamily -> technical_should_transfer_control(user_query)
    [] agent = Knowledge         -> knowledge_should_transfer_control(user_query)
    [] agent = Ticket            -> ticket_should_transfer_control(user_query)
    [] agent = FollowUp          -> _analyze_transfer_need(user_query)

\* state_after_decision with a slip: the decision marks the active agent
\* before it is final
state_marked_by_decision(session_state) ==
  [session_state EXCEPT !.last_active_agent = "router"]

\* the session state after a classifier or a transfer decision ran on it:
\* they only read it (dict.get)
state_after_decision(session_state) == session_state

\* the last element of a non-empty sequence
Last(s) == s[Len(s)]

\* ------------------------------------------------------ session state

\* a per-domain context block that has not been created yet
NoBlock == [present |-> FALSE, previous_queries |-> <<>>, completed |-> FALSE]

\* followup_context before its creation
NoFollowupBlock == [present |-> FALSE, followup_count |-> 0, last_handled |-> <<>>]

\* ctx.session.state of a new session: no key is set. A string key that is
\* absent reads as "" (state.get(key, "")), a text key as <<>>.
EmptySession ==
  [current_query        |-> <<>>,
   conversation_context |-> "",
   last_active_agent    |-> "",
   transfer_reason      |-> "",
   conversation_history |-> <<>>,
   technical_context    |-> NoBlock,
   knowledge_context    |-> NoBlock,
   ticket_context       |-> NoBlock,
   followup_context     |-> NoFollowupBlock]

\* ------------------------------------------------------------- events

\* Event(author, content text, actions): kind is "text" for a message the
\* agent wrote itself, "transfer" when actions.transfer_to_agent is set,
\* "backend" for an event of the completion/tool backend, "routing_error" for
\* the router's error; run numbers the agent activation within the turn.
Event(author, kind, target, tag, run) ==
  [author |-> author, kind |-> kind, target |-> target, tag |-> tag, run |-> run]

\* ------------------------------------------------- the root's routing

\* ConversationManager._extract_latest_user_message
_extract_latest_user_message(text) ==
  IF Strip(text) # <<>> THEN Strip(text) ELSE NoQueryProvided

\* the decimal digits
Digits == <<"0", "1", "2", "3", "4", "5", "6", "7", "8", "9">>

\* str(n) for a count below ten
str(n) == Digits[n + 1]

\* ctx.session.state.get("message_count", 0): no statement of the program
\* writes the key message_count, the read gives its default
message_count(st) == 0

\* ConversationManager._run_async_impl, lines 116-125: the current query and
\* the history entry written before classification
root_record_query(st, user_query) ==
  [st EXCEPT !.current_query = user_query,
             !.conversation_history =
                Append(@, [role |-> "user", content |-> user_query,
                           timestamp |-> str(message_count(st))])]

\* the agent a route of the root transfers to ("" when it answers itself)
root_target(intent) ==
  CASE intent = "followup"                  -> FollowUp
    [] intent = "knowledge_search"          -> Knowledge
    [] intent = "technical_troubleshooting" -> Technical
    [] intent = "ticket_analysis"           -> Ticket
    [] OTHER                                -> ""

\* root_route_writes with a slip: every route marks the root as the active
\* agent, also the routes that transfer
root_route_writes_marking_root(st, intent, self_name) ==
  CASE intent = "greeting" ->
         [st EXCEPT !.conversation_context = "greeting",
                    !.last_active_agent = self_name]
    [] intent = "followup" ->
         [st EXCEPT !.transfer_reason = "followup_question",
                    !.last_active_agent = self_name]
    [] intent = "knowledge_search" ->
         [st EXCEPT !.conversation_context = "knowledge",
                    !.transfer_reason = "knowledge_search",
                    !.last_active_agent = self_name]
    [] intent = "technical_troubleshooting" ->
         [st EXCEPT !.conversation_context = "technical",
                    !.transfer_reason = "technical_issue",
                    !.last_active_agent = self_name]
    [] intent = "ticket_analysis" ->
         [st EXCEPT !.conversation_context = "ticket",
                    !.transfer_reason = "ticket_analysis",
                    !.last_active_agent = self_name]
    [] intent = "clarification" ->
         [st EXCEPT !.conversation_context = "clarification",
                    !.last_active_agent = self_name]
    [] OTHER ->
         [st EXCEPT !.conversation_context = "general",
                    !.last_active_agent = self_name]

\* root_route_writes with a slip: the follow-up route records its own
\* conversation_context
root_route_writes_followup_context(st, intent, self_name) ==
  CASE intent = "greeting" ->
         [st EXCEPT !.conversation_context = "greeting",
                    !.last_active_agent = self_name]
    [] intent = "followup" ->
         [st EXCEPT !.conversation_context = "followup",
                    !.transfer_reason = "followup_question"]
    [] intent = "knowledge_search" ->
         [st EXCEPT !.conversation_context = "knowledge",
                    !.transfer_reason = "knowledge_search"]
    [] intent = "technical_troubleshooting" ->
         [st EXCEPT !.conversation_context = "technical",
                    !.transfer_reason = "technical_issue"]
    [] intent = "ticket_analysis" ->
         [st EXCEPT !.conversation_context = "ticket",
                    !.transfer_reason = "ticket_analysis"]
    [] intent = "clarification" ->
         [st EXCEPT !.conversation_context = "clarification",
                    !.last_active_agent = self_name]
    [] OTHER ->
         [st EXCEPT !.conversation_context = "general",
                    !.last_active_agent = self_name]

\* ConversationManager._run_async_impl, lines 132-198 with _handle_greeting,
\* _handle_clarification and _handle_general: what the route of `intent`
\* writes to the session state before its event
root_route_writes(st, intent, self_name) ==
  CASE intent = "greeting" ->
         [st EXCEPT !.conversation_context = "greeting",
                    !.last_active_agent = self_name]
    [] intent = "followup" ->
         [st EXCEPT !.transfer_reason = "followup_question"]
    [] intent = "knowledge_search" ->
         [st EXCEPT !.conversation_context = "knowledge",
                    !.transfer_reason = "knowledge_search"]
    [] intent = "technical_troubleshooting" ->
         [st EXCEPT !.conversation_context = "technical",
                    !.transfer_reason = "technical_issue"]
    [] intent = "ticket_analysis" ->
         [st EXCEPT !.conversation_context = "ticket",
                    !.transfer_reason = "ticket_analysis"]
    [] intent = "clarification" ->
         [st EXCEPT !.conversation_context = "clarification",
                    !.last_active_agent = self_name]
    [] OTHER ->
         [st EXCEPT !.conversation_context = "general",
                    !.last_active_agent = self_name]

\* root_route_events with a slip: the greeting route falls through to the
\* general route, so a greeting turn yields two texts
root_route_events_greeting_falls_through(intent, self_name, run) ==
  IF root_target(intent) # ""
  THEN <<Event(self_name, "transfer", root_target(intent), intent, run)>>
  ELSE IF intent = "greeting"
       THEN <<Event(self_name, "text", "", "greeting", run),
              Event(self_name, "text", "", "general", run)>>
       ELSE <<Event(self_name, "text", "", intent, run)>>

\* the events the route of `intent` yields, in order
root_route_events(intent, self_name, run) ==
  IF root_target(intent) # ""
  THEN <<Event(self_name, "transfer", root_target(intent), intent, run)>>
  ELSE <<Event(self_name, "text", "", intent, run)>>

\* ------------------------------------------- the specialists' handlers

\* the conversation_context a specialist writes when it retains control
\* ("" for FollowUpSpecialist, which leaves it alone)
specialist_context(agent) ==
  CASE agent \in TechnicalFamily -> "technical"
    [] agent = Knowledge         -> "knowledge"
    [] agent = Ticket            -> "ticket"
    [] OTHER                     -> ""

\* the transfer_reason of a first hand-off from the root to the specialist
initial_reason(agent) ==
  CASE agent \in TechnicalFamily -> "technical_issue"
    [] agent = Knowledge         -> "knowledge_search"
    [] agent = Ticket            -> "ticket_analysis"
    [] OTHER                     -> ""

\* early_transfer_events with the `return` after the transfer event missing:
\* the run goes on to its status event
early_transfer_events_without_return(agent, target_agent, run) ==
  <<Event(agent, "transfer", target_agent, "connect", run),
    Event(agent, "text", "", "status_initial", run)>>

\* the events a specialist yields when its decision is to transfer: the
\* transfer event, then `return`
early_transfer_events(agent, target_agent, run) ==
  <<Event(agent, "transfer", target_agent, "connect", run)>>

\* block_with_query with a slip: the block is set up anew on every entry
block_with_query_set_up_anew(block, current_query) ==
  [present          |-> TRUE,
   previous_queries |-> <<current_query>>,
   completed        |-> FALSE]

\* the per-domain block with current_query recorded, created on first use
block_with_query(block, current_query) ==
  [present          |-> TRUE,
   previous_queries |-> Append(block.previous_queries, current_query),
   completed        |-> block.completed]

\* <Specialist>._run_async_impl after a decision to retain control, up to
\* its first yield: the session state it writes
retain_writes(st, agent) ==
  CASE agent \in TechnicalFamily ->
         [st EXCEPT !.last_active_agent = agent,
                    !.conversation_context = "technical",
                    !.technical_context = block_with_query(@, st.current_query)]
    [] agent = Knowledge ->
         [st EXCEPT !.last_active_agent = agent,
                    !.conversation_context = "knowledge",
                    !.knowledge_context = block_with_query(@, st.current_query)]
    [] agent = Ticket ->
         [st EXCEPT !.last_active_agent = agent,
                    !.conversation_context = "ticket",
                    !.ticket_context = block_with_query(@, st.current_query)]
    [] agent = FollowUp ->
         [st EXCEPT !.last_active_agent = agent,
                    !.followup_context =
                       [present        |-> TRUE,
                        followup_count |-> @.followup_count + 1,
                        last_handled   |-> @.last_handled]]

\* is_followup: len(conversation_history) > 1 and transfer_reason is not the
\* reason of a first hand-off
is_followup(st, agent) ==
  /\ Len(st.conversation_history) > 1
  /\ st.transfer_reason # initial_reason(agent)

\* the status event a retaining specialist yields before the backend runs
status_event(st, agent, run) ==
  IF agent = FollowUp THEN Event(agent, "text", "", "status_followup", run)
  ELSE IF is_followup(st, agent)
       THEN Event(agent, "text", "", "status_followup", run)
       ELSE Event(agent, "text", "", "status_initial", run)

\* <Specialist>._run_async_impl after the backend's events are exhausted:
\* the completion mark
finish_writes(st, agent) ==
  CASE agent \in TechnicalFamily ->
         [st EXCEPT !.technical_context.completed = TRUE]
    [] agent = Knowledge ->
         [st EXCEPT !.knowledge_context.completed = TRUE]
    [] agent = Ticket ->
         [st EXCEPT !.ticket_context.completed = TRUE]
    [] agent = FollowUp ->
         [st EXCEPT !.followup_context.last_handled = st.current_query]


\* state_at_abandonment with a slip: the completion mark is written although
\* the generator was never resumed
state_at_abandonment_marking_completion(st, agent) == finish_writes(st, agent)

\* <Specialist>._run_async_impl suspended at a yield that is never resumed:
\* no statement after the yield runs, the session state stays as written so
\* far
state_at_abandonment(st, agent) == st

\* what the transfer decision of `agent` is computed from: the root reads the
\* turn's text and the context keys, a specialist reads current_query
decision_inputs(agent, text, st) ==
  <<agent, text, st.current_query, st.conversation_context, st.last_active_agent>>

\* llm_root_writes with a slip: the root records the turn's query as
\* ConversationManager does
llm_root_writes_recording_query(st, user_query) ==
  [st EXCEPT !.current_query = _extract_latest_user_message(user_query)]

\* LlmConversationManager: the class overrides no _run_async_impl and holds
\* no statement that writes the session state; its run leaves the state as
\* it was
llm_root_writes(st, user_query) == st

\* whatsapp_planner.py:16
THINK_TAG == <<"/","*","T","H","I","N","K","*","/">>

INTUITION_TAG == <<"/","*","I","N","T","U","I","T","I","O","N","*","/">>

HYPOTHESIS_TAG == <<"/","*","H","Y","P","O","T","H","E","S","I","S","*","/">>

PLAN_TAG == <<"/","*","P","L","A","N","*","/">>

ACTION_TAG == <<"/","*","A","C","T","I","O","N","*","/">>

OBSERVATION_TAG == <<"/","*","O","B","S","E","R","V","A","T","I","O","N","*","/">>

REFLECTION_TAG == <<"/","*","R","E","F","L","E","C","T","I","O","N","*","/">>

CLARIFY_TAG == <<"/","*","C","L","A","R","I","F","Y","*","/">>

FINAL_ANSWER_TAG == <<"/","*","F","I","N","A","L","_","A","N","S","W","E","R","*","/">>

REPLAN_TAG == <<"/","*","R","E","P","L","A","N","*","/">>

\* texts of the fragments a completion call streams
FragmentTexts ==
  <<
    <<"a"," ","/","*","T","H","I","N","K","*","/">>,
    <<"b"," ","/","*","F","I","N","A","L","_","A","N","S","W","E","R","*","/"," ","c">>,
    <<"x"," ","/","*","F","I","N","A","L","_","A","N","S","W","E","R","*","/"," ","y"," ","/","*","F","I","N","A","L","_","A","N","S","W","E","R","*","/"," ","z">>,
    <<"/","*","P","L","A","N","*","/"," ","p"," ","/","*","F","I","N","A","L","_","A","N","S","W","E","R","*","/">>,
    <<"/","*","A","C","T","I","O","N","*","/"," ","r","u","n">>,
    <<"p","l","a","i","n">>,
    <<>>,
    <<"b"," ","/","*","F","I","N","A","L","_","A","N","S","W","E","R","*","/"," ","c"," ","/","*","T","H","I","N","K","*","/"," ","d">>,
    <<"/","*","C","L","A","R","I","F","Y","*","/"," ","w","h","i","c","h">>
  >>

\* --------------------------------------------- response stream planner

\* a part's absent function_call
NoCall == [present |-> FALSE, name |-> ""]

\* types.Part(text=...): a text part; thought is unset
TextPart(text) ==
  [function_call |-> NoCall, has_text |-> TRUE, text |-> text, thought |-> FALSE]

\* a part holding a function call; name "" stands for an empty or absent name
CallPart(name) ==
  [function_call |-> [present |-> TRUE, name |-> name],
   has_text |-> FALSE, text |-> <<>>, thought |-> FALSE]

\* a part with neither text nor a function call (a function response, data)
OtherPart ==
  [function_call |-> NoCall, has_text |-> FALSE, text |-> <<>>, thought |-> FALSE]

\* a preserved part with the index of the response part it was made from
Preserved(part, origin) ==
  [part |-> part, origin |-> origin]

\* str.rfind(separator): the last index (from 1) where separator starts in
\* text, 0 when it does not occur (Python's -1)
rfind(text, separator) ==
  IF Contains(text, separator)
  THEN CHOOSE i \in 1..(Len(text) - Len(separator) + 1) :
         /\ SubSeq(text, i, i + Len(separator) - 1) = separator
         /\ \A j \in (i + 1)..(Len(text) - Len(separator) + 1) :
               SubSeq(text, j, j + Len(separator) - 1) # separator
  ELSE 0

\* _split_by_last_pattern with a slip: find instead of rfind, the split is
\* made at the first occurrence
_split_by_first_pattern(text, separator) ==
  IF ~Contains(text, separator) THEN <<text, <<>>>>
  ELSE LET index == CHOOSE i \in 1..(Len(text) - Len(separator) + 1) :
                      /\ SubSeq(text, i, i + Len(separator) - 1) = separator
                      /\ \A j \in 1..(i - 1) :
                            SubSeq(text, j, j + Len(separator) - 1) # separator
       IN  <<SubSeq(text, 1, index + Len(separator) - 1),
             SubSeq(text, index + Len(separator), Len(text))>>

\* WhatsAppDeepReasonPlanner._split_by_last_pattern
_split_by_last_pattern(text, separator) ==
  LET index == rfind(text, separator)
  IN  IF index = 0 THEN <<text, <<>>>>
      ELSE <<SubSeq(text, 1, index + Len(separator) - 1),
             SubSeq(text, index + Len(separator), Len(text))>>

\* thinking_tags with a slip: CLARIFY_TAG counted among the reasoning tags
thinking_tags_with_clarify ==
  <<THINK_TAG, INTUITION_TAG, HYPOTHESIS_TAG, PLAN_TAG, OBSERVATION_TAG,
    REFLECTION_TAG, REPLAN_TAG, CLARIFY_TAG>>

\* thinking_tags with a slip: ACTION_TAG counted among the reasoning tags
thinking_tags_with_action ==
  <<THINK_TAG, INTUITION_TAG, HYPOTHESIS_TAG, PLAN_TAG, ACTION_TAG,
    OBSERVATION_TAG, REFLECTION_TAG, REPLAN_TAG>>

\* _handle_text_part: thinking_tags
thinking_tags ==
  <<THINK_TAG, INTUITION_TAG, HYPOTHESIS_TAG, PLAN_TAG,
    OBSERVATION_TAG, REFLECTION_TAG, REPLAN_TAG>>

\* _mark_as_thought: sets thought on a part with non-empty text
_mark_as_thought(response_part) ==
  IF response_part.has_text /\ response_part.text # <<>>
  THEN [response_part EXCEPT !.thought = TRUE]
  ELSE response_part

\* _handle_text_part with a slip: the final-answer marker is treated as one
\* more reasoning tag, the fragment is kept whole and marked as thought
_handle_text_part_without_split(part, i, preserved_parts) ==
  IF Contains(part.text, FINAL_ANSWER_TAG) \/ AnyIn(thinking_tags, part.text)
  THEN Append(preserved_parts, Preserved(_mark_as_thought(part), i))
  ELSE Append(preserved_parts, Preserved(part, i))

\* WhatsAppDeepReasonPlanner._handle_text_part: preserved_parts after the
\* text part at index i is handled
_handle_text_part(part, i, preserved_parts) ==
  IF Contains(part.text, FINAL_ANSWER_TAG)
  THEN LET split          == _split_by_last_pattern(part.text, FINAL_ANSWER_TAG)
           reasoning_text == split[1]
           final_text     == split[2]
           with_reasoning ==
             IF reasoning_text # <<>>
             THEN Append(preserved_parts,
                         Preserved(_mark_as_thought(TextPart(reasoning_text)), i))
             ELSE preserved_parts
       IN  IF final_text # <<>>
           THEN Append(with_reasoning, Preserved(TextPart(final_text), i))
           ELSE with_reasoning
  ELSE IF AnyIn(thinking_tags, part.text)
       THEN Append(preserved_parts, Preserved(_mark_as_thought(part), i))
       ELSE Append(preserved_parts, Preserved(part, i))

\* function_call_run with a slip: an empty-name call ends the run
RECURSIVE function_call_run_ended_by_empty_name(_, _)
function_call_run_ended_by_empty_name(response_parts, j) ==
  IF j > Len(response_parts) \/ ~response_parts[j].function_call.present
  THEN <<>>
  ELSE IF response_parts[j].function_call.name # ""
       THEN <<Preserved(response_parts[j], j)>>
              \o function_call_run_ended_by_empty_name(response_parts, j + 1)
       ELSE <<>>

\* process_planning_response, lines 48-52: the function calls that follow
\* the first one, from index j to the first part that is no function call
RECURSIVE function_call_run(_, _)
function_call_run(response_parts, j) ==
  IF j > Len(response_parts) \/ ~response_parts[j].function_call.present
  THEN <<>>
  ELSE IF response_parts[j].function_call.name # ""
       THEN <<Preserved(response_parts[j], j)>>
              \o function_call_run(response_parts, j + 1)
       ELSE function_call_run(response_parts, j + 1)

\* scan_parts with a slip: no `break` after the function-call run, the loop
\* goes on with the parts that follow
RECURSIVE scan_parts_without_break(_, _, _)
scan_parts_without_break(response_parts, i, preserved_parts) ==
  IF i > Len(response_parts) THEN preserved_parts
  ELSE LET part == response_parts[i]
       IN  IF part.function_call.present
           THEN IF part.function_call.name = ""
                THEN scan_parts_without_break(response_parts, i + 1, preserved_parts)
                ELSE scan_parts_without_break(response_parts, i + 1,
                       Append(preserved_parts, Preserved(part, i)))
           ELSE IF part.has_text
                THEN scan_parts_without_break(response_parts, i + 1,
                       _handle_text_part(part, i, preserved_parts))
                ELSE scan_parts_without_break(response_parts, i + 1, preserved_parts)

\* process_planning_response, lines 39-58: the loop over the response parts
\* from index i on
RECURSIVE scan_parts(_, _, _)
scan_parts(response_parts, i, preserved_parts) ==
  IF i > Len(response_parts) THEN preserved_parts
  ELSE LET part == response_parts[i]
       IN  IF part.function_call.present
           THEN IF part.function_call.name = ""
                THEN scan_parts(response_parts, i + 1, preserved_parts)
                ELSE Append(preserved_parts, Preserved(part, i))
                       \o function_call_run(response_parts, i + 1)
           ELSE IF part.has_text
                THEN scan_parts(response_parts, i + 1,
                                _handle_text_part(part, i, preserved_parts))
                ELSE scan_parts(response_parts, i + 1, preserved_parts)

\* WhatsAppDeepReasonPlanner.process_planning_response: none is Python's
\* None, returned for an empty response
process_planning_response(response_parts) ==
  IF response_parts = <<>>
  THEN [none |-> TRUE, parts |-> <<>>]
  ELSE [none |-> FALSE, parts |-> scan_parts(response_parts, 1, <<>>)]

\* solution_utils.py:38
delivery_terms ==
  <<
    <<"d","e","l","i","v","e","r","y">>,
    <<"f","a","i","l","e","d">>,
    <<"n","o","t"," ","d","e","l","i","v","e","r","e","d">>,
    <<"b","o","u","n","c","e">>
  >>

\* solution_utils.py:42
rate_limit_terms ==
  <<
    <<"r","a","t","e"," ","l","i","m","i","t">>,
    <<"t","h","r","o","t","t","l","e">>,
    <<"q","u","o","t","a">>,
    <<"l","i","m","i","t"," ","e","x","c","e","e","d","e","d">>
  >>

\* solution_utils.py:46
template_terms ==
  <<
    <<"t","e","m","p","l","a","t","e">>,
    <<"a","p","p","r","o","v","a","l">>,
    <<"r","e","j","e","c","t","e","d">>,
    <<"n","o","t"," ","a","p","p","r","o","v","e","d">>
  >>

\* solution_utils.py:50
webhook_terms ==
  <<
    <<"w","e","b","h","o","o","k">>,
    <<"c","a","l","l","b","a","c","k">>,
    <<"s","t","a","t","u","s"," ","u","p","d","a","t","e">>
  >>

\* solution_utils.py:54
phone_terms ==
  <<
    <<"p","h","o","n","e"," ","n","u","m","b","e","r">>,
    <<"i","n","v","a","l","i","d">>,
    <<"f","o","r","m","a","t">>,
    <<"c","o","u","n","t","r","y"," ","c","o","d","e">>
  >>

\* error_terms with a slip: 'failed' is missing
error_terms_without_failed ==
  <<
    <<"e","r","r","o","r">>,
    <<"e","x","c","e","p","t","i","o","n">>,
    <<"t","i","m","e","o","u","t">>
  >>

\* solution_utils.py:63
error_terms ==
  <<
    <<"e","r","r","o","r">>,
    <<"f","a","i","l","e","d">>,
    <<"e","x","c","e","p","t","i","o","n">>,
    <<"t","i","m","e","o","u","t">>
  >>

\* solution_utils.py:67
failed_status_terms ==
  <<
    <<"s","t","a","t","u","s",":"," ","f","a","i","l","e","d">>,
    <<"d","e","l","i","v","e","r","y","_","s","t","a","t","u","s",":"," ","f","a","i","l","e","d">>
  >>

\* solution_utils.py:71
audience_terms ==
  <<
    <<"n","o"," ","r","e","c","i","p","i","e","n","t","s">>,
    <<"e","m","p","t","y"," ","a","u","d","i","e","n","c","e">>,
    <<"z","e","r","o"," ","u","s","e","r","s">>
  >>

\* solution_utils.py:75
configuration_terms ==
  <<
    <<"c","o","n","f","i","g","u","r","a","t","i","o","n">>,
    <<"s","e","t","u","p">>,
    <<"m","i","s","s","i","n","g"," ","p","a","r","a","m","e","t","e","r">>
  >>

\* the findings of the design's synthesis scenario
RateLimitExceeded == <<"r","a","t","e"," ","l","i","m","i","t"," ","e","x","c","e","e","d","e","d">>

\* solution_utils.py:148
rec_delivery_terms ==
  <<
    <<"d","e","l","i","v","e","r","y">>,
    <<"f","a","i","l","e","d">>,
    <<"n","o","t"," ","d","e","l","i","v","e","r","e","d">>
  >>

\* solution_utils.py:158
rec_rate_limit_terms ==
  <<
    <<"r","a","t","e"," ","l","i","m","i","t">>,
    <<"t","h","r","o","t","t","l","e">>,
    <<"q","u","o","t","a">>
  >>

\* solution_utils.py:168
rec_template_terms ==
  <<
    <<"t","e","m","p","l","a","t","e">>,
    <<"a","p","p","r","o","v","a","l">>,
    <<"r","e","j","e","c","t","e","d">>
  >>

\* solution_utils.py:178
rec_webhook_terms ==
  <<
    <<"w","e","b","h","o","o","k">>,
    <<"c","a","l","l","b","a","c","k">>,
    <<"s","t","a","t","u","s">>
  >>

\* solution_utils.py:191
rec_error_terms ==
  <<
    <<"e","r","r","o","r">>,
    <<"f","a","i","l","e","d">>,
    <<"e","x","c","e","p","t","i","o","n">>
  >>

\* solution_utils.py:201
rec_configuration_terms ==
  <<
    <<"c","o","n","f","i","g","u","r","a","t","i","o","n">>,
    <<"s","e","t","u","p">>,
    <<"m","i","s","s","i","n","g">>
  >>

\* solution_utils.py:211
rec_audience_terms ==
  <<
    <<"n","o"," ","r","e","c","i","p","i","e","n","t","s">>,
    <<"e","m","p","t","y"," ","a","u","d","i","e","n","c","e">>,
    <<"z","e","r","o"," ","u","s","e","r","s">>
  >>

\* phrases the bounded findings are built from
FindingPhrases ==
  <<
    <<"r","a","t","e"," ","l","i","m","i","t"," ","e","x","c","e","e","d","e","d">>,
    <<"T","e","m","p","l","a","t","e"," ","r","e","j","e","c","t","e","d">>,
    <<"s","t","a","t","u","s",":"," ","f","a","i","l","e","d">>,
    <<"o","k">>,
    <<" ">>
  >>

\* solution_utils.py:292: default of user_query
NoQueryDefault == <<"N","o"," ","q","u","e","r","y"," ","p","r","o","v","i","d","e","d">>

\* a user_query held by the session state
SampleQuery == <<"c","a","m","p","a","i","g","n"," ","f","a","i","l","e","d">>

\* phrases the findings of the bounded session states are built from
ReportPhrases ==
  <<
    <<"r","a","t","e"," ","l","i","m","i","t"," ","e","x","c","e","e","d","e","d">>,
    <<"T","e","m","p","l","a","t","e"," ","r","e","j","e","c","t","e","d">>,
    <<"s","t","a","t","u","s",":"," ","f","a","i","l","e","d">>,
    <<"b","o","u","n","c","e">>,
    <<"s","e","t","u","p"," ","m","i","s","s","i","n","g">>,
    <<"o","k">>,
    <<" ">>
  >>

\* ------------------------------------------------- solution synthesis

\* analyze_root_cause, lines 34-56: the categories matched in the knowledge
\* findings, as (root cause, contributing factor) pairs in the code's order
knowledge_matches(knowledge) ==
  IF Strip(knowledge) = <<>> THEN <<>>
  ELSE LET knowledge_lower == Lower(knowledge)
       IN  (IF AnyIn(delivery_terms, knowledge_lower)
            THEN <<<<"Message delivery failure",
                     "Delivery issues identified in knowledge base">>>>
            ELSE <<>>)
        \o (IF AnyIn(rate_limit_terms, knowledge_lower)
            THEN <<<<"API rate limiting",
                     "Rate limiting constraints mentioned in documentation">>>>
            ELSE <<>>)
        \o (IF AnyIn(template_terms, knowledge_lower)
            THEN <<<<"Template approval issues",
                     "Template-related problems found in knowledge base">>>>
            ELSE <<>>)
        \o (IF AnyIn(webhook_terms, knowledge_lower)
            THEN <<<<"Webhook/status update issues",
                     "Webhook configuration problems identified">>>>
            ELSE <<>>)
        \o (IF AnyIn(phone_terms, knowledge_lower)
            THEN <<<<"Phone number formatting issues",
                     "Phone number validation problems documented">>>>
            ELSE <<>>)

\* analyze_root_cause, lines 59-77: the categories matched in the execution
\* results
execution_matches(execution) ==
  IF Strip(execution) = <<>> THEN <<>>
  ELSE LET execution_lower == Lower(execution)
       IN  (IF AnyIn(error_terms, execution_lower)
            THEN <<<<"Technical execution errors",
                     "Error conditions detected in campaign logs">>>>
            ELSE <<>>)
        \o (IF AnyIn(failed_status_terms, execution_lower)
            THEN <<<<"Campaign delivery failure",
                     "Failed delivery status in campaign data">>>>
            ELSE <<>>)
        \o (IF AnyIn(audience_terms, execution_lower)
            THEN <<<<"Audience targeting issues",
                     "No valid recipients found in campaign execution">>>>
            ELSE <<>>)
        \o (IF AnyIn(configuration_terms, execution_lower)
            THEN <<<<"Campaign configuration issues",
                     "Configuration problems identified in execution data">>>>
            ELSE <<>>)

\* confidence_of with a slip: High needs more than two root causes
confidence_of_above_two(root_causes) ==
  IF Len(root_causes) > 2 THEN "High" ELSE "Medium"

\* analyze_root_cause, line 119: the reported confidence
confidence_of(root_causes) ==
  IF Len(root_causes) >= 2 THEN "High" ELSE "Medium"

\* analyze_root_cause with a slip: the findings are tested for being empty,
\* not for being blank
analyze_root_cause_without_strip(knowledge, execution) ==
  LET matches == knowledge_matches(knowledge) \o execution_matches(execution)
      root_causes          == [i \in 1..Len(matches) |-> matches[i][1]]
      contributing_factors == [i \in 1..Len(matches) |-> matches[i][2]]
  IN  IF root_causes = <<>>
      THEN [status               |-> IF knowledge = <<>> /\ execution = <<>>
                                     THEN "insufficient_data"
                                     ELSE "no_clear_root_cause",
            identified           |-> 0,
            root_causes          |-> <<>>,
            contributing_factors |-> <<>>,
            confidence           |-> ""]
      ELSE [status               |-> "identified",
            identified           |-> Len(root_causes),
            root_causes          |-> root_causes,
            contributing_factors |-> contributing_factors,
            confidence           |-> confidence_of(root_causes)]

\* analyze_root_cause: the analysis text by its parts. status is the branch
\* taken; the numbered root causes, the contributing factors and the
\* confidence are written only when a category matched.
analyze_root_cause(knowledge, execution) ==
  LET matches == knowledge_matches(knowledge) \o execution_matches(execution)
      root_causes          == [i \in 1..Len(matches) |-> matches[i][1]]
      contributing_factors == [i \in 1..Len(matches) |-> matches[i][2]]
  IN  IF root_causes = <<>>
      THEN [status               |-> IF Strip(knowledge) = <<>> /\ Strip(execution) = <<>>
                                     THEN "insufficient_data"
                                     ELSE "no_clear_root_cause",
            identified           |-> 0,
            root_causes          |-> <<>>,
            contributing_factors |-> <<>>,
            confidence           |-> ""]
      ELSE [status               |-> "identified",
            identified           |-> Len(root_causes),
            root_causes          |-> root_causes,
            contributing_factors |-> contributing_factors,
            confidence           |-> confidence_of(root_causes)]

\* "".join(phrases)
RECURSIVE Concat(_)
Concat(phrases) ==
  IF phrases = <<>> THEN <<>> ELSE phrases[1] \o Concat(Tail(phrases))

\* --------------------------------------------------- recommendations

\* one entry of generate_recommendations' recommendations list together with
\* what the same branch appends to immediate_actions and preventive_measures
Recommendation(category, priority, immediate, preventive) ==
  [category |-> category, priority |-> priority,
   immediate |-> immediate, preventive |-> preventive]

\* generate_recommendations, lines 144-184: the entries of the knowledge
\* findings, in the code's order
knowledge_recommendations(knowledge) ==
  IF Strip(knowledge) = <<>> THEN <<>>
  ELSE LET knowledge_lower == Lower(knowledge)
       IN  (IF AnyIn(rec_delivery_terms, knowledge_lower)
            THEN <<Recommendation("Delivery Issues", "High",
                     <<"Validate phone number formats and WhatsApp availability">>, <<>>)>>
            ELSE <<>>)
        \o (IF AnyIn(rec_rate_limit_terms, knowledge_lower)
            THEN <<Recommendation("Rate Limiting", "High",
                     <<>>, <<"Set up monitoring for API rate limit thresholds">>)>>
            ELSE <<>>)
        \o (IF AnyIn(rec_template_terms, knowledge_lower)
            THEN <<Recommendation("Template Issues", "Medium",
                     <<"Check template approval status in WhatsApp Business Manager">>, <<>>)>>
            ELSE <<>>)
        \o (IF AnyIn(rec_webhook_terms, knowledge_lower)
            THEN <<Recommendation("Webhook Configuration", "Medium", <<>>, <<>>)>>
            ELSE <<>>)

\* generate_recommendations, lines 187-218: the entries of the execution
\* results
execution_recommendations(execution) ==
  IF Strip(execution) = <<>> THEN <<>>
  ELSE LET execution_lower == Lower(execution)
       IN  (IF AnyIn(rec_error_terms, execution_lower)
            THEN <<Recommendation("Error Resolution", "High",
                     <<"Review campaign error logs for specific failure patterns">>, <<>>)>>
            ELSE <<>>)
        \o (IF AnyIn(rec_configuration_terms, execution_lower)
            THEN <<Recommendation("Configuration", "Medium",
                     <<>>, <<"Implement configuration validation checks">>)>>
            ELSE <<>>)
        \o (IF AnyIn(rec_audience_terms, execution_lower)
            THEN <<Recommendation("Audience Targeting", "High",
                     <<"Check audience size and targeting parameters">>, <<>>)>>
            ELSE <<>>)

\* one line of the recommendations output: the section it stands under, its
\* number within the section (0 for a bullet) and its text
OutputLine(section, number, text) ==
  [section |-> section, number |-> number, text |-> text]

\* lines 244-246 and 250-252: the numbered entries of one priority group
numbered_section(section, recs) ==
  [i \in 1..Len(recs) |-> OutputLine(section, i, recs[i].category)]

\* lines 256-257 and 262-263: the bullets of a list
bullet_section(section, items) ==
  [i \in 1..Len(items) |-> OutputLine(section, 0, items[i])]

\* the sections of the output with a slip: the medium group is written
\* before the high group
output_sections_medium_first(high_priority, medium_priority, immediate_actions, preventive_measures) ==
     numbered_section("MEDIUM PRIORITY ACTIONS", medium_priority)
  \o numbered_section("HIGH PRIORITY ACTIONS", high_priority)
  \o bullet_section("IMMEDIATE ACTIONS", immediate_actions)
  \o bullet_section("PREVENTIVE MEASURES", preventive_measures)

\* generate_recommendations, lines 242-264: the sections in the order they
\* are written; an empty group or list writes nothing
output_sections(high_priority, medium_priority, immediate_actions, preventive_measures) ==
     numbered_section("HIGH PRIORITY ACTIONS", high_priority)
  \o numbered_section("MEDIUM PRIORITY ACTIONS", medium_priority)
  \o bullet_section("IMMEDIATE ACTIONS", immediate_actions)
  \o bullet_section("PREVENTIVE MEASURES", preventive_measures)

\* the priority filter of lines 239-240
IsPriority(r, priority) == r.priority = priority

HighOnly(r) == IsPriority(r, "High")

MediumOnly(r) == IsPriority(r, "Medium")

\* generate_recommendations: the output text by its parts. status is the
\* branch taken; lines holds the sections in output order.
generate_recommendations(knowledge, execution) ==
  LET recommendations == knowledge_recommendations(knowledge)
                           \o execution_recommendations(execution)
      immediate_actions   == Concat([i \in 1..Len(recommendations) |->
                                       recommendations[i].immediate])
      preventive_measures == Concat([i \in 1..Len(recommendations) |->
                                       recommendations[i].preventive])
      high_priority   == SelectSeq(recommendations, HighOnly)
      medium_priority == SelectSeq(recommendations, MediumOnly)
  IN  IF recommendations = <<>>
      THEN [status          |-> "no_specific_recommendations",
            recommendations |-> <<>>,
            lines           |-> <<>>,
            total           |-> 0]
      ELSE [status          |-> "listed",
            recommendations |-> recommendations,
            lines           |-> output_sections(high_priority, medium_priority,
                                                immediate_actions, preventive_measures),
            total           |-> Len(recommendations)]

\* ------------------------------------------------- the final solution

\* a key of the session state dict: absent, or held with a value
Missing == [present |-> FALSE, value |-> <<>>]

Held(value) == [present |-> TRUE, value |-> value]

\* session_state.get(key, default)
state_get(entry, default) == IF entry.present THEN entry.value ELSE default

\* value of a timestamp field that is not written
NoTimestamp == -1

\* analyze_root_cause, line 120: the timestamp is written only when root
\* causes were identified
analysis_timestamp(report, now) ==
  IF report.status = "identified" THEN now ELSE NoTimestamp

\* generate_recommendations, line 267: the timestamp is written only when
\* recommendations are listed
recommendations_timestamp(output, now) ==
  IF output.status = "listed" THEN now ELSE NoTimestamp

\* lines 320-332 and 340-352: a findings section of the solution
findings_section(findings) ==
  IF Strip(findings) # <<>>
  THEN [found |-> TRUE, findings |-> findings]
  ELSE [found |-> FALSE, findings |-> <<>>]

\* the session state generate_final_solution leaves behind, with a slip: the
\* findings it read are cleared
state_after_final_solution_clearing(session_state) ==
  [session_state EXCEPT !.knowledge_findings = Held(<<>>),
                        !.execution_results = Held(<<>>)]

\* generate_final_solution, lines 292-295: the session state is only read,
\* with session_state.get
state_after_final_solution(session_state) == session_state

\* generate_final_solution: the solution text by its parts
generate_final_solution(session_state, now) ==
  LET user_query          == state_get(session_state.user_query, NoQueryDefault)
      knowledge_findings  == state_get(session_state.knowledge_findings, <<>>)
      execution_results   == state_get(session_state.execution_results, <<>>)
      investigation_phase == IF session_state.investigation_phase.present
                             THEN "held" ELSE "unknown"
      root_cause_analysis == analyze_root_cause(knowledge_findings, execution_results)
      recommendations     == generate_recommendations(knowledge_findings, execution_results)
  IN  [user_query          |-> user_query,
       investigation_phase |-> investigation_phase,
       timestamp           |-> now,
       knowledge_section   |-> findings_section(knowledge_findings),
       execution_section   |-> findings_section(execution_results),
       root_cause_analysis |-> root_cause_analysis,
       analysis_timestamp  |-> analysis_timestamp(root_cause_analysis, now),
       recommendations     |-> recommendations,
       recommendations_timestamp |-> recommendations_timestamp(recommendations, now)]

\* ------------------------------------------- the legacy orchestrator

\* name of the legacy orchestrator (agent.py:356-360)
LegacyName == "MoEngageWhatsAppSupportOrchestrator"

\* ctx.session.state as the legacy orchestrator uses it, no key set
NoLegacySession ==
  [user_query          |-> Missing,
   knowledge_findings  |-> Missing,
   execution_results   |-> Missing,
   investigation_phase |-> Missing,
   response            |-> Missing,
   phase               |-> Missing]

\* an event of a sub-agent as the orchestrator sees it: the text of its
\* parts (<<>> when no part has text) and actions.transfer_to_agent
SubEvent(text, transfer_to_agent) ==
  [text |-> text, transfer_to_agent |-> transfer_to_agent]

\* lines 222-226, 240-244, 250-254: one event folded into the results;
\* only part.text is read
results_with_event(results, event) ==
  IF event.text # <<>> THEN results \o event.text \o <<"\n">> ELSE results

\* a value of state["response"]: a fixed text, the knowledge results or the
\* final solution
Response(kind, text, report) == [kind |-> kind, text |-> text, report |-> report]

\* `if response:` of _generate_events
response_is_nonempty(response) ==
  response.kind # "knowledge" \/ response.text # <<>>

\* _run_async_impl, lines 149-160: the query recorded and, for a new query
\* after an earlier one, the findings reset
legacy_record_query(st, latest_user_query) ==
  LET previous_user_query == state_get(st.user_query, <<>>)
  IN  IF latest_user_query # previous_user_query
      THEN IF previous_user_query # <<>>
           THEN [st EXCEPT !.user_query = Held(latest_user_query),
                           !.knowledge_findings = Held(<<>>),
                           !.execution_results = Held(<<>>)]
           ELSE [st EXCEPT !.user_query = Held(latest_user_query)]
      ELSE st

\* _handle_greeting and _handle_clarification: the fixed response
fixed_response_writes(st, intent) ==
  [st EXCEPT !.response = Held(Response(intent, <<>>, <<>>)),
             !.phase = Held(IF intent = "greeting" THEN "greeting_complete"
                            ELSE "clarification_complete")]

\* _handle_knowledge_only, lines 228-230
knowledge_only_writes(st, knowledge_results) ==
  [st EXCEPT !.knowledge_findings = Held(knowledge_results),
             !.response = Held(Response("knowledge", knowledge_results, <<>>)),
             !.phase = Held("knowledge_complete")]

\* knowledge_findings_write with a slip: progress is recorded under the key
\* the report reads
knowledge_findings_write_recording_phase(st, knowledge_results) ==
  [st EXCEPT !.knowledge_findings = Held(knowledge_results),
             !.investigation_phase = Held("knowledge_complete")]

\* _handle_technical_debug, line 246
knowledge_findings_write(st, knowledge_results) ==
  [st EXCEPT !.knowledge_findings = Held(knowledge_results)]

\* technical_debug_writes with a slip: the solution is generated before
\* execution_results is written
technical_debug_writes_solution_first(st, execution_results, time) ==
  [st EXCEPT !.execution_results = Held(execution_results),
             !.response = Held(Response("solution", <<>>,
                                 generate_final_solution(st, time))),
             !.phase = Held("technical_complete")]

\* _handle_technical_debug, lines 256-261: execution_results written, the
\* solution generated from the state, then response and phase written
technical_debug_writes(st, execution_results, time) ==
  LET with_results == [st EXCEPT !.execution_results = Held(execution_results)]
  IN  [with_results EXCEPT
         !.response = Held(Response("solution", <<>>,
                             generate_final_solution(with_results, time))),
         !.phase = Held("technical_complete")]

\* an event the orchestrator yields itself
LegacyEvent(content) == [author |-> LegacyName, content |-> content]

\* _generate_events: the stored response as an event, if there is one
response_events(st) ==
  IF st.response.present /\ response_is_nonempty(st.response.value)
  THEN <<LegacyEvent(st.response.value)>>
  ELSE <<>>

\* ------------------------------------------------------------ bounds

\* most words in an utterance handed to the classifiers
MaxWords == 2
\* user turns in a session
MaxTurns == 3
\* transfers followed within one turn before the caller stops pulling events
MaxHops == 3
\* events the completion/tool backend yields in one specialist run
MaxBackendEvents == 1
\* most parts in one response of the completion backend
MaxFragments == 3
\* most phrases in the knowledge findings or the execution results
MaxFindingPhrases == 2
\* most phrases in a findings value of a session state handed to
\* generate_final_solution
MaxReportPhrases == 1
\* most events of one sub-call of the legacy orchestrator
MaxSubEvents == 1
\* most turns of a legacy orchestrator session
MaxLegacyTurns == 2

\* ------------------------------------------------------------- inputs

Words == {Vocabulary[i] : i \in 1..Len(Vocabulary)} \cup {PushScenario}

\* " ".join(ws)
RECURSIVE Join(_)
Join(ws) ==
  IF ws = <<>> THEN <<>>
  ELSE IF Len(ws) = 1 THEN ws[1]
  ELSE ws[1] \o <<" ">> \o Join(Tail(ws))

\* the utterances the classifiers are evaluated on
Utterances == {Join(ws) : ws \in UNION {[1..k -> Words] : k \in 0..MaxWords}}

\* the utterances of a session's turns
TurnUtterances ==
  {TurnUtteranceList[i] : i \in 1..Len(TurnUtteranceList)} \cup {PushScenario}

\* names of the function calls in a response; "" is an empty name
CallNames == {"", "search_logs", "get_campaign"}

\* the parts a response is made of
Fragments ==
  {TextPart(FragmentTexts[i]) : i \in 1..Len(FragmentTexts)}
    \cup {CallPart(n) : n \in CallNames} \cup {OtherPart}

\* the responses handed to the planner
Responses == UNION {[1..k -> Fragments] : k \in 0..MaxFragments}


\* the knowledge findings and execution results handed to the synthesis
Findings ==
  {Concat(ps) : ps \in UNION {[1..k -> {FindingPhrases[i] : i \in 1..Len(FindingPhrases)}] :
                                 k \in 0..MaxFindingPhrases}}

\* the findings values of the session states handed to the final solution
ReportFindings ==
  {Concat(ps) : ps \in UNION {[1..k -> {ReportPhrases[i] : i \in 1..Len(ReportPhrases)}] :
                                 k \in 0..MaxReportPhrases}}

\* values conversation_context takes: "" when the key is absent, else what
\* the root's routes and the specialists write
Contexts == {"", "greeting", "clarification", "general",
             "knowledge", "technical", "ticket"}

\* values last_active_agent takes: "" when the key is absent
LastAgents == {""} \cup Addressable

VARIABLES
  wiring,       \* "deterministic": ConversationManager is the root;
                \* "llm": LlmConversationManager is (agent.py:311)
  holder,       \* the agent that owns the conversation
  running,      \* the agent whose _run_async_impl is running, "" if none
  pc,           \* "idle" | "run" | "backend" | "route"
  utterance,    \* the user's text of the current turn
  state,        \* ctx.session.state
  events,       \* the events yielded in the current turn, in order
  turns,        \* user turns so far
  hops,         \* transfers delivered in the current turn
  reads,        \* current_query as read by each transfer decision of the turn
  cq_writes,    \* writes of state["current_query"] in the current turn
  last_retainer,\* the agent that most recently kept control and answered
  turn_state,   \* the session state as the current turn found it
  failed,       \* the backend raised in the current turn
  abandoned,    \* the consumer stopped pulling events of the current turn
  entered,      \* the inputs under which agents were given control in the
                \* current turn
  consumed_to_end, \* the domains whose most recent retained turn consumed
                \* the backend's events to the end
  c_pc,         \* "off" | "input" | "done": the classifier harness
  c_query,      \* the utterance handed to the classifiers
  c_state,      \* the session state handed to them
  c_intent,     \* ConversationManager._classify_intent's label
  c_legacy,     \* WhatsAppSupportOrchestrator._classify_user_intent's label
  c_decision,   \* each specialist's transfer decision
  p_pc,         \* "off" | "input" | "done": the planner harness
  response_parts,   \* the parts handed to process_planning_response
  preserved_parts,  \* its result
  s_pc,         \* "off" | "input" | "done": the synthesis harness
  knowledge,    \* knowledge findings handed to analyze_root_cause
  execution,    \* execution results handed to it
  analysis,     \* its result
  f_pc,         \* "off" | "input" | "solved" | "again": the solution harness
  session_given,\* the session state as handed to generate_final_solution
  session_state,\* the session state dict the calls work on
  now,          \* the clock read by datetime.now()
  solution,     \* result of the first call of generate_final_solution
  solution_again,\* result of the second call on the same session state
  l_pc,         \* "off" | "idle" | "knowledge_call" | "execution_call" | "emit"
  l_turns,      \* turns of the legacy session so far
  l_intent,     \* the intent the current turn was classified as
  l_state,      \* ctx.session.state of the legacy session
  l_events,     \* the events the orchestrator yielded in the current turn
  l_results,    \* knowledge_results / execution_results of the running sub-call
  l_consumed,   \* the sub-agents' events consumed in the current turn, in order
  l_log         \* the steps of the current turn, in order

tvars == <<wiring, holder, running, pc, utterance, state, events, turns, hops,
           reads, cq_writes, last_retainer, turn_state, failed, abandoned, entered,
           consumed_to_end>>
cvars == <<c_pc, c_query, c_state, c_intent, c_legacy, c_decision>>
pvars == <<p_pc, response_parts, preserved_parts>>
svars == <<s_pc, knowledge, execution, analysis>>
fvars == <<f_pc, session_given, session_state, now, solution, solution_again>>
lvars == <<l_pc, l_turns, l_intent, l_state, l_events, l_results, l_consumed, l_log>>
hvars == <<pvars, svars, fvars, lvars>>
vars == <<tvars, cvars, hvars>>

NoDecision == [a \in specialist_agents |-> <<FALSE, "?">>]

\* ------------------------------------------- one session, turn by turn

\* a new session: the root owns the conversation
TurnIdle ==
  /\ holder = RootName
  /\ running = ""
  /\ pc = "idle"
  /\ utterance = <<>>
  /\ state = EmptySession
  /\ events = <<>>
  /\ turns = 0
  /\ hops = 0
  /\ reads = <<>>
  /\ cq_writes = 0
  /\ last_retainer = ""
  /\ turn_state = EmptySession
  /\ failed = FALSE
  /\ abandoned = FALSE
  /\ entered = {}
  /\ consumed_to_end = {}

ClassifyOff ==
  /\ c_pc = "off"
  /\ c_query = <<>>
  /\ c_state = EmptySession
  /\ c_intent = ""
  /\ c_legacy = ""
  /\ c_decision = NoDecision

NoAnalysis ==
  [status |-> "", identified |-> 0, root_causes |-> <<>>,
   contributing_factors |-> <<>>, confidence |-> ""]

PlannerOff ==
  /\ p_pc = "off"
  /\ response_parts = <<>>
  /\ preserved_parts = [none |-> TRUE, parts |-> <<>>]

SynthesisOff ==
  /\ s_pc = "off"
  /\ knowledge = <<>>
  /\ execution = <<>>
  /\ analysis = NoAnalysis

\* the keys generate_final_solution reads, none of them set
NoSessionState ==
  [user_query |-> [present |-> FALSE, value |-> <<>>],
   knowledge_findings |-> [present |-> FALSE, value |-> <<>>],
   execution_results |-> [present |-> FALSE, value |-> <<>>],
   investigation_phase |-> [present |-> FALSE, value |-> <<>>]]

SolutionOff ==
  /\ f_pc = "off"
  /\ session_given = NoSessionState
  /\ session_state = NoSessionState
  /\ now = 0
  /\ solution = <<>>
  /\ solution_again = <<>>

LegacyOff ==
  /\ l_pc = "off"
  /\ l_turns = 0
  /\ l_intent = ""
  /\ l_state = NoLegacySession
  /\ l_events = <<>>
  /\ l_results = <<>>
  /\ l_consumed = <<>>
  /\ l_log = <<>>

Init ==
  /\ wiring \in {"deterministic", "llm"}
  /\ TurnIdle
  /\ ClassifyOff
  /\ PlannerOff
  /\ SynthesisOff
  /\ SolutionOff
  /\ LegacyOff

\* A user turn arrives and is handed to the agent that owns the conversation.
UserTurn(u) ==
  /\ pc = "idle"
  /\ turns < MaxTurns
  /\ utterance' = u
  /\ running' = holder
  /\ pc' = "run"
  /\ events' = <<>>
  /\ turns' = turns + 1
  /\ hops' = 0
  /\ reads' = <<>>
  /\ cq_writes' = 0
  /\ turn_state' = state
  /\ failed' = FALSE
  /\ abandoned' = FALSE
  /\ entered' = {decision_inputs(holder, u, state)}
  /\ UNCHANGED <<wiring, holder, state, last_retainer, consumed_to_end, cvars, hvars>>

\* ConversationManager._run_async_impl: the whole run, to its single yield.
RootRun ==
  /\ pc = "run"
  /\ running = RootName
  /\ wiring = "deterministic"
  /\ LET user_query == _extract_latest_user_message(utterance)
         recorded   == root_record_query(state, user_query)
         intent     == _classify_intent(user_query,
                                        recorded.conversation_context,
                                        recorded.last_active_agent)
     IN  /\ state' = root_route_writes(recorded, intent, RootName)
         /\ events' = events \o root_route_events(intent, RootName, hops)
         /\ cq_writes' = cq_writes + 1
         /\ IF root_target(intent) # ""
            THEN /\ pc' = "route"
                 /\ UNCHANGED <<running, holder, last_retainer>>
            ELSE /\ pc' = "idle"
                 /\ running' = ""
                 /\ holder' = RootName
                 /\ last_retainer' = RootName
  /\ UNCHANGED <<wiring, utterance, turns, hops, reads, turn_state, failed, abandoned, entered, consumed_to_end, cvars, hvars>>

\* LlmConversationManager answers the turn itself: the completion backend's
\* text, nothing written to the session state.
LlmRootAnswer ==
  /\ pc = "run"
  /\ running = RootName
  /\ wiring = "llm"
  /\ events' = Append(events, Event(RootName, "backend", "", "answer", hops))
  /\ pc' = "idle"
  /\ running' = ""
  /\ holder' = RootName
  /\ last_retainer' = RootName
  /\ state' = llm_root_writes(state, utterance)
  /\ UNCHANGED <<wiring, utterance, turns, hops, reads, cq_writes, turn_state, failed, abandoned, entered, consumed_to_end, cvars, hvars>>

\* LlmConversationManager routes the turn to one of its sub_agents: the
\* completion backend picks the specialist.
LlmRootTransfer(t) ==
  /\ pc = "run"
  /\ running = RootName
  /\ wiring = "llm"
  /\ t \in specialist_agents
  /\ events' = Append(events, Event(RootName, "transfer", t, "llm_route", hops))
  /\ pc' = "route"
  /\ state' = llm_root_writes(state, utterance)
  /\ UNCHANGED <<wiring, holder, running, utterance, turns, hops, reads,
                 cq_writes, last_retainer, turn_state, failed, abandoned, entered, consumed_to_end, cvars, hvars>>

\* <Specialist>._run_async_impl when its decision is to transfer.
SpecialistTransfer(a) ==
  /\ pc = "run"
  /\ running = a
  /\ a \in specialist_agents
  /\ LET current_query == state.current_query
         decision      == _should_transfer_control(a, current_query)
     IN  /\ decision[1]
         /\ reads' = Append(reads, current_query)
         /\ events' = events \o early_transfer_events(a, decision[2], hops)
         /\ state' = state_after_decision(state)
         /\ pc' = "route"
  /\ UNCHANGED <<wiring, holder, running, utterance, turns, hops, cq_writes,
                 last_retainer, turn_state, failed, abandoned, entered, consumed_to_end, cvars, hvars>>

\* <Specialist>._run_async_impl when its decision is to retain control: the
\* state it writes and its status event, up to the backend's first event.
SpecialistRetain(a) ==
  /\ pc = "run"
  /\ running = a
  /\ a \in specialist_agents
  /\ LET current_query == state.current_query
         decision      == _should_transfer_control(a, current_query)
         written       == retain_writes(state_after_decision(state), a)
     IN  /\ ~decision[1]
         /\ reads' = Append(reads, current_query)
         /\ state' = written
         /\ events' = Append(events, status_event(written, a, hops))
         /\ last_retainer' = a
         /\ pc' = "backend"
  /\ consumed_to_end' = consumed_to_end \ {specialist_context(a)}
  /\ UNCHANGED <<wiring, holder, running, utterance, turns, hops, cq_writes, turn_state, failed, abandoned, entered, cvars, hvars>>

\* number of the backend's events in the current run of agent a
BackendCount(a) ==
  Cardinality({i \in 1..Len(events) :
                 /\ events[i].author = a
                 /\ events[i].kind = "backend"
                 /\ events[i].run = hops})

\* super()._run_async_impl(ctx) yields one more event of the backend.
BackendEvent(a) ==
  /\ pc = "backend"
  /\ running = a
  /\ BackendCount(a) < MaxBackendEvents
  /\ events' = Append(events, Event(a, "backend", "", "llm", hops))
  /\ UNCHANGED <<wiring, holder, running, pc, utterance, state, turns, hops,
                 reads, cq_writes, last_retainer, turn_state, failed, abandoned, entered, consumed_to_end, cvars, hvars>>

\* The backend's events are exhausted: the specialist marks completion and
\* its run ends; it keeps the conversation.
SpecialistFinish(a) ==
  /\ pc = "backend"
  /\ running = a
  /\ state' = finish_writes(state, a)
  /\ pc' = "idle"
  /\ running' = ""
  /\ consumed_to_end' = consumed_to_end \cup {specialist_context(a)}
  /\ UNCHANGED <<wiring, holder, utterance, events, turns, hops, reads,
                 cq_writes, last_retainer, turn_state, failed, abandoned, entered, cvars, hvars>>

\* super()._run_async_impl(ctx) raises (backend error or timeout). The
\* specialist has no handler around the loop: the exception leaves its
\* generator, which yields nothing more, and the statements after the loop
\* are not run. What it wrote before the loop stays written.
BackendFailure(a) ==
  /\ pc = "backend"
  /\ running = a
  /\ failed' = TRUE
  /\ pc' = "idle"
  /\ running' = ""
  /\ UNCHANGED <<wiring, holder, utterance, state, events, turns, hops, reads,
                 cq_writes, last_retainer, turn_state, abandoned, entered, consumed_to_end, cvars, hvars>>

\* The consumer stops pulling events while the specialist is suspended at a
\* yield, its status event or an event of the backend: the generator is
\* never resumed, so nothing after that yield is run.
ConsumerStops(a) ==
  /\ pc = "backend"
  /\ running = a
  /\ state' = state_at_abandonment(state, a)
  /\ abandoned' = TRUE
  /\ pc' = "idle"
  /\ running' = ""
  /\ UNCHANGED <<wiring, holder, utterance, events, turns, hops, reads,
                 cq_writes, last_retainer, turn_state, failed, entered, consumed_to_end, cvars, hvars>>

\* the target of the transfer that is waiting to be routed: the latest
\* transfer event of the turn
PendingTarget ==
  LET last_transfer == CHOOSE i \in 1..Len(events) :
                          /\ events[i].kind = "transfer"
                          /\ \A j \in (i + 1)..Len(events) : events[j].kind # "transfer"
  IN  events[last_transfer].target

\* The router delivers a transfer to an addressable agent: the target owns
\* the conversation and runs on the same turn.
Deliver ==
  /\ pc = "route"
  /\ PendingTarget \in Addressable
  /\ hops < MaxHops
  /\ running' = PendingTarget
  /\ holder' = PendingTarget
  /\ hops' = hops + 1
  /\ pc' = "run"
  /\ entered' = entered \cup {decision_inputs(PendingTarget, utterance, state)}
  /\ UNCHANGED <<wiring, utterance, state, events, turns, reads, cq_writes,
                 last_retainer, turn_state, failed, abandoned, consumed_to_end, cvars, hvars>>

\* the router's outcome for a target outside the addressable set
unknown_target_outcome(prior_holder, run) ==
  [holder |-> prior_holder,
   events |-> <<Event("router", "routing_error", "", "unknown_target", run)>>]

\* The router cannot address the target: the turn ends with a routing error
\* and the conversation stays where it was.
RoutingError ==
  /\ pc = "route"
  /\ PendingTarget \notin Addressable
  /\ LET outcome == unknown_target_outcome(holder, hops)
     IN  /\ holder' = outcome.holder
         /\ events' = events \o outcome.events
  /\ pc' = "idle"
  /\ running' = ""
  /\ UNCHANGED <<wiring, utterance, state, turns, hops, reads, cq_writes,
                 last_retainer, turn_state, failed, abandoned, entered, consumed_to_end, cvars, hvars>>

\* The caller stops pulling events of a turn whose transfers go on.
Abandon ==
  /\ pc = "route"
  /\ PendingTarget \in Addressable
  /\ hops >= MaxHops
  /\ pc' = "idle"
  /\ running' = ""
  /\ UNCHANGED <<wiring, holder, utterance, state, events, turns, hops, reads,
                 cq_writes, last_retainer, turn_state, failed, abandoned, entered, consumed_to_end, cvars, hvars>>

Next ==
  \/ \E u \in TurnUtterances : UserTurn(u)
  \/ RootRun
  \/ LlmRootAnswer
  \/ \E t \in specialist_agents : LlmRootTransfer(t)
  \/ \E a \in specialist_agents : SpecialistTransfer(a)
  \/ \E a \in specialist_agents : SpecialistRetain(a)
  \/ \E a \in specialist_agents : BackendEvent(a)
  \/ \E a \in specialist_agents : SpecialistFinish(a)
  \/ \E a \in specialist_agents : BackendFailure(a)
  \/ \E a \in specialist_agents : ConsumerStops(a)
  \/ Deliver
  \/ RoutingError
  \/ Abandon

Spec == Init /\ [][Next]_vars

\* ------------------------------- the classifiers on bounded inputs

InitClassify ==
  /\ wiring = "deterministic"
  /\ TurnIdle
  /\ c_pc = "input"
  /\ c_query \in Utterances
  /\ c_state \in {[EmptySession EXCEPT !.conversation_context = c,
                                       !.last_active_agent = l] :
                     c \in Contexts, l \in LastAgents}
  /\ c_intent = ""
  /\ c_legacy = ""
  /\ c_decision = NoDecision
  /\ PlannerOff
  /\ SynthesisOff
  /\ SolutionOff
  /\ LegacyOff

\* One evaluation of every classifier and transfer decision on the inputs.
Evaluate ==
  /\ c_pc = "input"
  /\ c_intent' = _classify_intent(c_query, c_state.conversation_context,
                                  c_state.last_active_agent)
  /\ c_legacy' = _classify_user_intent(c_query)
  /\ c_decision' = [a \in specialist_agents |-> _should_transfer_control(a, c_query)]
  /\ c_state' = state_after_decision(c_state)
  /\ c_pc' = "done"
  /\ UNCHANGED <<c_query, tvars, hvars>>

NextClassify == Evaluate

SpecClassify == InitClassify /\ [][NextClassify]_vars

\* --------------------------- the planner on bounded responses

InitPlanner ==
  /\ wiring = "deterministic"
  /\ TurnIdle
  /\ ClassifyOff
  /\ SynthesisOff
  /\ SolutionOff
  /\ LegacyOff
  /\ p_pc = "input"
  /\ response_parts \in Responses
  /\ preserved_parts = [none |-> TRUE, parts |-> <<>>]

\* One call of process_planning_response on the response.
ProcessResponse ==
  /\ p_pc = "input"
  /\ preserved_parts' = process_planning_response(response_parts)
  /\ p_pc' = "done"
  /\ UNCHANGED <<response_parts, tvars, cvars, svars, fvars, lvars>>

NextPlanner == ProcessResponse

SpecPlanner == InitPlanner /\ [][NextPlanner]_vars

\* --------------------------- the synthesis on bounded findings

InitSynthesis ==
  /\ wiring = "deterministic"
  /\ TurnIdle
  /\ ClassifyOff
  /\ PlannerOff
  /\ SolutionOff
  /\ LegacyOff
  /\ s_pc = "input"
  /\ knowledge \in Findings
  /\ execution \in Findings
  /\ analysis = NoAnalysis

\* One call of analyze_root_cause on the findings.
Analyze ==
  /\ s_pc = "input"
  /\ analysis' = analyze_root_cause(knowledge, execution)
  /\ s_pc' = "done"
  /\ UNCHANGED <<knowledge, execution, tvars, cvars, pvars, fvars, lvars>>

NextSynthesis == Analyze

SpecSynthesis == InitSynthesis /\ [][NextSynthesis]_vars


\* ------------------- the final solution on bounded session states

\* the session states handed to generate_final_solution: each findings key
\* is absent or holds a text, user_query is absent or holds a query
SessionStates ==
  {[user_query |-> q, knowledge_findings |-> k, execution_results |-> e,
    investigation_phase |-> Missing] :
     q \in {Missing, Held(SampleQuery)},
     k \in {Missing} \cup {Held(t) : t \in ReportFindings},
     e \in {Missing} \cup {Held(t) : t \in ReportFindings}}

InitSolution ==
  /\ wiring = "deterministic"
  /\ TurnIdle
  /\ ClassifyOff
  /\ PlannerOff
  /\ SynthesisOff
  /\ LegacyOff
  /\ f_pc = "input"
  /\ session_given \in SessionStates
  /\ session_state = session_given
  /\ now = 0
  /\ solution = <<>>
  /\ solution_again = <<>>

\* One call of generate_final_solution on the session state; the clock may
\* have moved on when the next call reads it.
Solve ==
  /\ f_pc = "input"
  /\ solution' = generate_final_solution(session_state, now)
  /\ session_state' = state_after_final_solution(session_state)
  /\ now' \in {now, now + 1}
  /\ f_pc' = "solved"
  /\ UNCHANGED <<session_given, solution_again, tvars, cvars, pvars, svars, lvars>>

\* A second call on the session state the first call left.
SolveAgain ==
  /\ f_pc = "solved"
  /\ solution_again' = generate_final_solution(session_state, now)
  /\ session_state' = state_after_final_solution(session_state)
  /\ now' \in {now, now + 1}
  /\ f_pc' = "again"
  /\ UNCHANGED <<session_given, solution, tvars, cvars, pvars, svars, lvars>>

NextSolution == Solve \/ SolveAgain

SpecSolution == InitSolution /\ [][NextSolution]_vars

\* ------------------------------ a session of the legacy orchestrator

\* the user messages of the legacy session's turns
LegacyUtterances == {TurnUtteranceList[i] : i \in {1, 2, 3, 6}}

\* the events a sub-agent can yield: a text, a part without text (a tool
\* call), and a text that carries a transfer action
SubEvents ==
  {SubEvent(ReportPhrases[3], ""), SubEvent(<<>>, ""),
   SubEvent(ReportPhrases[6], "KnowledgeSpecialist")}

InitLegacy ==
  /\ wiring = "deterministic"
  /\ TurnIdle
  /\ ClassifyOff
  /\ PlannerOff
  /\ SynthesisOff
  /\ SolutionOff
  /\ l_pc = "idle"
  /\ l_turns = 0
  /\ l_intent = ""
  /\ l_state = NoLegacySession
  /\ l_events = <<>>
  /\ l_results = <<>>
  /\ l_consumed = <<>>
  /\ l_log = <<>>

\* _run_async_impl from its start to the first point where it waits: the
\* hello event, the query recorded, the intent classified, and for a fixed
\* response the whole handler.
LegacyTurn(u) ==
  /\ l_pc = "idle"
  /\ l_turns < MaxLegacyTurns
  /\ LET recorded == legacy_record_query(l_state, _extract_latest_user_message(u))
         user_intent == _classify_user_intent(state_get(recorded.user_query, NoQueryDefault))
     IN  /\ l_intent' = user_intent
         /\ IF user_intent \in {"greeting", "clarification"}
            THEN /\ l_state' = fixed_response_writes(recorded, user_intent)
                 /\ l_pc' = "emit"
                 /\ l_log' = <<"hello", "response_written">>
            ELSE /\ l_state' = recorded
                 /\ l_pc' = "knowledge_call"
                 /\ l_log' = <<"hello", "knowledge_started">>
  /\ l_turns' = l_turns + 1
  /\ l_events' = <<LegacyEvent(Response("hello", <<>>, <<>>))>>
  /\ l_results' = <<>>
  /\ l_consumed' = <<>>
  /\ UNCHANGED <<tvars, cvars, pvars, svars, fvars>>

\* number of events consumed from the running sub-call
SubCount(call) ==
  Cardinality({i \in 1..Len(l_consumed) : l_consumed[i].call = call})

\* knowledge_agent.run_async(ctx) yields one more event.
KnowledgeEvent(ev) ==
  /\ l_pc = "knowledge_call"
  /\ SubCount("knowledge") < MaxSubEvents
  /\ l_results' = results_with_event(l_results, ev)
  /\ l_consumed' = Append(l_consumed, [call |-> "knowledge", event |-> ev])
  /\ l_log' = Append(l_log, "knowledge_event")
  /\ UNCHANGED <<l_pc, l_turns, l_intent, l_state, l_events, tvars, cvars, pvars, svars, fvars>>

\* The knowledge sub-call's events are exhausted: the findings are written;
\* the knowledge-only handler ends, the technical handler starts the
\* execution sub-call.
KnowledgeDone ==
  /\ l_pc = "knowledge_call"
  /\ IF l_intent = "knowledge_only"
     THEN /\ l_state' = knowledge_only_writes(l_state, l_results)
          /\ l_pc' = "emit"
          /\ l_log' = l_log \o <<"knowledge_exhausted", "knowledge_findings_written",
                                  "response_written">>
     ELSE /\ l_state' = knowledge_findings_write(l_state, l_results)
          /\ l_pc' = "execution_call"
          /\ l_log' = l_log \o <<"knowledge_exhausted", "knowledge_findings_written",
                                  "execution_started">>
  /\ l_results' = <<>>
  /\ UNCHANGED <<l_turns, l_intent, l_events, l_consumed, tvars, cvars, pvars, svars, fvars>>

\* execution_agent.run_async(ctx) yields one more event.
ExecutionEvent(ev) ==
  /\ l_pc = "execution_call"
  /\ SubCount("execution") < MaxSubEvents
  /\ l_results' = results_with_event(l_results, ev)
  /\ l_consumed' = Append(l_consumed, [call |-> "execution", event |-> ev])
  /\ l_log' = Append(l_log, "execution_event")
  /\ UNCHANGED <<l_pc, l_turns, l_intent, l_state, l_events, tvars, cvars, pvars, svars, fvars>>

\* The execution sub-call's events are exhausted: the results are written,
\* the solution is generated and stored as the response.
ExecutionDone ==
  /\ l_pc = "execution_call"
  /\ l_state' = technical_debug_writes(l_state, l_results, now)
  /\ l_pc' = "emit"
  /\ l_log' = l_log \o <<"execution_exhausted", "execution_results_written",
                          "solution_generated", "response_written">>
  /\ l_results' = <<>>
  /\ UNCHANGED <<l_turns, l_intent, l_events, l_consumed, tvars, cvars, pvars, svars, fvars>>

\* _generate_events: the stored response is yielded and the turn ends.
EmitResponse ==
  /\ l_pc = "emit"
  /\ l_events' = l_events \o response_events(l_state)
  /\ l_log' = Append(l_log, "response_emitted")
  /\ l_pc' = "idle"
  /\ UNCHANGED <<l_turns, l_intent, l_state, l_results, l_consumed, tvars, cvars, pvars, svars, fvars>>

NextLegacy ==
  \/ \E u \in LegacyUtterances : LegacyTurn(u)
  \/ \E ev \in SubEvents : KnowledgeEvent(ev)
  \/ KnowledgeDone
  \/ \E ev \in SubEvents : ExecutionEvent(ev)
  \/ ExecutionDone
  \/ EmitResponse

SpecLegacy == InitLegacy /\ [][NextLegacy]_vars
\* ------------------------------------------------------------ claims

\* true when the turn's events hold a transfer emitted by agent a
EmittedTransfer(a) ==
  \E i \in 1..Len(events) : events[i].kind = "transfer" /\ events[i].author = a

\* C1: with ConversationManager as the root, every transfer decision of a
\* turn reads, as current_query, the utterance of that turn, and a finished
\* turn has written current_query exactly once.
C1_DecisionOnCurrentUtterance ==
  wiring = "deterministic" =>
  /\ \A i \in 1..Len(reads) : reads[i] = _extract_latest_user_message(utterance)
  /\ (pc = "idle" /\ turns > 0) => cq_writes = 1

C4_LastActiveAgentByRetainer ==
  [][/\ state'.last_active_agent \in {"", last_retainer'}
     /\ (Len(events') > Len(events) /\ Last(events').kind = "transfer")
          => state'.last_active_agent = state.last_active_agent
     /\ state'.last_active_agent # state.last_active_agent
          => /\ state'.last_active_agent = running
             /\ last_retainer' = running
             /\ Last(events').kind = "text"]_vars

\* C4 witness: a finished turn in which the root transferred and a specialist
\* then retained control: last_active_agent names that specialist.
C4_Witness ==
  /\ pc = "idle"
  /\ EmittedTransfer(RootName)
  /\ state.last_active_agent \in specialist_agents
  /\ last_retainer = state.last_active_agent

\* ---------------------------------------- claims about the classifiers

\* the classifier's view of the utterance under evaluation
Normalized == Strip(Lower(c_query))

\* the greeting rule fires: a greeting substring in a query under 25 characters
GreetingFires == AnyIn(greeting_patterns, Normalized) /\ Len(Normalized) < 25

DomainContexts == {"technical", "knowledge", "ticket"}

\* the utterance holds a keyword of the set owned by the session's context
OwnKeywordMatches ==
  \/ /\ c_state.conversation_context = "technical"
     /\ AnyIn(context_keywords_technical, Normalized)
  \/ /\ c_state.conversation_context = "knowledge"
     /\ AnyIn(context_keywords_knowledge, Normalized)
  \/ /\ c_state.conversation_context = "ticket"
     /\ AnyIn(context_keywords_ticket, Normalized)

RootRuleFires(k) ==
  CASE k = 1 -> GreetingFires
    [] k = 2 -> AnyIn(followup_patterns, Normalized)
                /\ c_state.conversation_context # ""
    [] k = 3 -> /\ c_state.conversation_context # ""
                /\ c_state.last_active_agent # ""
                /\ Len(Normalized) > 5
                /\ OwnKeywordMatches
    [] k = 4 -> AnyIn(ticket_patterns, Normalized)
    [] k = 5 -> AnyIn(technical_patterns, Normalized)
    [] k = 6 -> AnyIn(knowledge_patterns, Normalized)
    [] k = 7 -> Len(Normalized) < 5
    [] OTHER -> TRUE

RootRuleLabel ==
  <<"greeting", "followup", "followup", "ticket_analysis",
    "technical_troubleshooting", "knowledge_search", "clarification", "general">>

\* The legacy orchestrator's rules in priority order.
LegacyRuleFires(k) ==
  CASE k = 1 -> AnyIn(legacy_greeting_patterns, Normalized) /\ Len(Normalized) < 20
    [] k = 2 -> AnyIn(legacy_technical_patterns, Normalized)
    [] k = 3 -> AnyIn(legacy_knowledge_patterns, Normalized)
    [] k = 4 -> Len(Normalized) < 5
    [] OTHER -> TRUE

LegacyRuleLabel ==
  <<"greeting", "technical_debug", "knowledge_only", "clarification",
    "knowledge_only">>

\* C7: each classifier returns the label of the first rule, in its fixed
\* order, whose trigger matches; declaration order alone breaks ties between
\* domains, not the number of matching triggers.
C7_FirstMatchingRuleWins ==
  c_pc = "done" =>
    /\ \E k \in 1..Len(RootRuleLabel) :
          /\ RootRuleFires(k)
          /\ \A j \in 1..(k - 1) : ~RootRuleFires(j)
          /\ c_intent = RootRuleLabel[k]
    /\ \E k \in 1..Len(LegacyRuleLabel) :
          /\ LegacyRuleFires(k)
          /\ \A j \in 1..(k - 1) : ~LegacyRuleFires(j)
          /\ c_legacy = LegacyRuleLabel[k]

\* C7 witness: an utterance with one ticket trigger and more technical
\* triggers gets the ticket label from the root, and the technical label from
\* the legacy orchestrator, which has no ticket rule.
C7_Witness ==
  /\ c_pc = "done"
  /\ CountIn(ticket_patterns, Normalized) = 1
  /\ CountIn(technical_patterns, Normalized) > 1
  /\ c_intent = "ticket_analysis"
  /\ c_legacy = "technical_debug"

\* no trigger substring of any label of the root classifier occurs
NoRootTrigger ==
  /\ ~AnyIn(greeting_patterns, Normalized)
  /\ ~AnyIn(followup_patterns, Normalized)
  /\ ~AnyIn(context_keywords_technical, Normalized)
  /\ ~AnyIn(context_keywords_knowledge, Normalized)
  /\ ~AnyIn(context_keywords_ticket, Normalized)
  /\ ~AnyIn(ticket_patterns, Normalized)
  /\ ~AnyIn(technical_patterns, Normalized)
  /\ ~AnyIn(knowledge_patterns, Normalized)

\* no trigger substring of any label of the legacy classifier occurs
NoLegacyTrigger ==
  /\ ~AnyIn(legacy_greeting_patterns, Normalized)
  /\ ~AnyIn(legacy_technical_patterns, Normalized)
  /\ ~AnyIn(legacy_knowledge_patterns, Normalized)

\* C8: an utterance shorter than 5 characters (trimmed, lower-cased) that
\* matches no trigger is classified clarification, by the root under every
\* session state and by the legacy orchestrator.
C8_ShortUnmatchedIsClarification ==
  (c_pc = "done" /\ Len(Normalized) < 5) =>
    /\ NoRootTrigger => c_intent = "clarification"
    /\ NoLegacyTrigger => c_legacy = "clarification"

\* C8 witness: a short unmatched utterance, in a technical conversation, is
\* classified clarification by both classifiers.
C8_Witness ==
  /\ c_pc = "done"
  /\ Len(Normalized) \in 1..4
  /\ NoRootTrigger
  /\ NoLegacyTrigger
  /\ c_state.conversation_context = "technical"
  /\ c_state.last_active_agent = Technical
  /\ c_intent = "clarification"
  /\ c_legacy = "clarification"

RootLabels == {"greeting", "followup", "ticket_analysis",
               "technical_troubleshooting", "knowledge_search",
               "clarification", "general"}

LegacyLabels == {"greeting", "technical_debug", "knowledge_only", "clarification"}

\* C9: every utterance under every session state gets one label of the
\* classifier's vocabulary; an unmatched utterance of 5 characters or more
\* gets the default label (general at the root, knowledge_only in the legacy
\* orchestrator); and the root's route for the label yields one event.
C9_ClassificationIsTotal ==
  c_pc = "done" =>
    /\ c_intent \in RootLabels
    /\ c_legacy \in LegacyLabels
    /\ (Len(Normalized) >= 5 /\ NoRootTrigger) => c_intent = "general"
    /\ (Len(Normalized) >= 5 /\ NoLegacyTrigger) => c_legacy = "knowledge_only"
    /\ Len(root_route_events(c_intent, RootName, 0)) = 1

\* C9 witness: an unmatched utterance of 5 characters or more, under a
\* session state with no key set, gets the default labels.
C9_Witness ==
  /\ c_pc = "done"
  /\ Len(Normalized) >= 5
  /\ NoRootTrigger
  /\ NoLegacyTrigger
  /\ c_state = EmptySession
  /\ c_intent = "general"
  /\ c_legacy = "knowledge_only"

RootLabelNow ==
  _classify_intent(_extract_latest_user_message(utterance),
                   state.conversation_context, state.last_active_agent)

\* C11: a run of the root on an utterance it classifies as greeting yields
\* exactly one event, a text of the root with no transfer target, ends the
\* turn, and leaves conversation_context = "greeting" and last_active_agent
\* = the root's name.
C11_GreetingTurn ==
  [][(/\ pc = "run"
      /\ running = RootName
      /\ wiring = "deterministic"
      /\ RootLabelNow = "greeting")
     => /\ Len(events') = Len(events) + 1
        /\ SubSeq(events', 1, Len(events)) = events
        /\ Last(events').kind = "text"
        /\ Last(events').author = RootName
        /\ Last(events').target = ""
        /\ pc' = "idle"
        /\ state'.conversation_context = "greeting"
        /\ state'.last_active_agent = RootName]_vars

\* C11 witness: a session whose second turn, "hi", was answered by the root
\* with a single text after a first turn on another subject.
C11_Witness ==
  /\ wiring = "deterministic"
  /\ pc = "idle"
  /\ turns = 2
  /\ Lower(Strip(utterance)) = <<"h", "i">>
  /\ Len(events) = 1
  /\ events[1].kind = "text"
  /\ events[1].author = RootName
  /\ state.conversation_context = "greeting"
  /\ state.last_active_agent = RootName
  /\ Len(state.conversation_history) = 2

\* C12: in a new session with ConversationManager as the root, the turn on
\* "push campaign 12345 not delivering, error FCM" ends with
\* PushTroubleshootAgent holding control: the root's transfer names it and it
\* retains control.
C12_PushScenarioEndsAtPushSpecialist ==
  (/\ wiring = "deterministic"
   /\ turns = 1
   /\ utterance = PushScenario
   /\ pc = "idle")
  => /\ \E i \in 1..Len(events) :
          /\ events[i].author = RootName
          /\ events[i].kind = "transfer"
          /\ events[i].target = Push
     /\ holder = Push
     /\ state.last_active_agent = Push

\* ------------------------------------ claims about the response planner

\* index of the first function call with a non-empty name, Len + 1 if none
FirstNamedCall ==
  IF \E i \in 1..Len(response_parts) :
        /\ response_parts[i].function_call.present
        /\ response_parts[i].function_call.name # ""
  THEN CHOOSE i \in 1..Len(response_parts) :
         /\ response_parts[i].function_call.present
         /\ response_parts[i].function_call.name # ""
         /\ \A j \in 1..(i - 1) :
               ~(response_parts[j].function_call.present
                 /\ response_parts[j].function_call.name # "")
  ELSE Len(response_parts) + 1

\* the text fragments processed before any function-call run
TextBeforeRun(i) ==
  /\ i \in 1..Len(response_parts)
  /\ i < FirstNamedCall
  /\ response_parts[i].has_text

\* positions of the output units made from fragment i
UnitsOf(i) ==
  {k \in 1..Len(preserved_parts.parts) : preserved_parts.parts[k].origin = i}

\* a text unit of the output
IsTextUnit(u, text, hidden) ==
  /\ u.part.has_text
  /\ ~u.part.function_call.present
  /\ u.part.text = text
  /\ u.part.thought = hidden

\* where the final-answer marker ends at its last occurrence in the text
LastMarkerEnd(text) ==
  CHOOSE e \in Len(FINAL_ANSWER_TAG)..Len(text) :
    /\ SubSeq(text, e - Len(FINAL_ANSWER_TAG) + 1, e) = FINAL_ANSWER_TAG
    /\ \A f \in (e + 1)..Len(text) :
          SubSeq(text, f - Len(FINAL_ANSWER_TAG) + 1, f) # FINAL_ANSWER_TAG

\* C13: a text fragment before any function-call run that holds the
\* final-answer marker yields one hidden unit, the prefix up to and including
\* the last marker of the fragment, immediately followed by one visible unit,
\* the suffix, which is left out exactly when the suffix is empty.
C13_SplitAtLastMarkerOfFragment ==
  p_pc = "done" =>
    \A i \in 1..Len(response_parts) :
      (TextBeforeRun(i) /\ Contains(response_parts[i].text, FINAL_ANSWER_TAG)) =>
        LET text   == response_parts[i].text
            e      == LastMarkerEnd(text)
            prefix == SubSeq(text, 1, e)
            suffix == SubSeq(text, e + 1, Len(text))
            out    == preserved_parts.parts
        IN  \E k \in 1..Len(out) :
              /\ IsTextUnit(out[k], prefix, TRUE)
              /\ IF suffix = <<>>
                 THEN UnitsOf(i) = {k}
                 ELSE /\ UnitsOf(i) = {k, k + 1}
                      /\ IsTextUnit(out[k + 1], suffix, FALSE)

\* C13 witness: the design's example, [text("a /*THINK*/"),
\* text("b /*FINAL_ANSWER*/ c")], gives hidden, hidden, visible(" c").
C13_Witness ==
  /\ p_pc = "done"
  /\ response_parts = <<TextPart(FragmentTexts[1]), TextPart(FragmentTexts[2])>>
  /\ Len(preserved_parts.parts) = 3
  /\ IsTextUnit(preserved_parts.parts[1], FragmentTexts[1], TRUE)
  /\ IsTextUnit(preserved_parts.parts[2],
                SubSeq(FragmentTexts[2], 1, 2 + Len(FINAL_ANSWER_TAG)), TRUE)
  /\ IsTextUnit(preserved_parts.parts[3], <<" ", "c">>, FALSE)

\* every fragment of the response is a text fragment
AllText == \A i \in 1..Len(response_parts) : response_parts[i].has_text

\* the fragments that hold the final-answer marker
MarkerFragments ==
  {i \in 1..Len(response_parts) :
     response_parts[i].has_text /\ Contains(response_parts[i].text, FINAL_ANSWER_TAG)}

\* the fragment holding the last marker occurrence of the whole sequence
LastMarkerFragment ==
  CHOOSE i \in MarkerFragments : \A j \in MarkerFragments : j <= i

\* C14 as stated: when the marker occurs in more than one fragment of a
\* sequence of text fragments, everything before the last marker occurrence
\* of the whole sequence is hidden: a visible unit comes only from the
\* fragment holding that occurrence and is that fragment's suffix.
C14_SplitAtLastMarkerOfSequence ==
  (p_pc = "done" /\ AllText /\ Cardinality(MarkerFragments) > 1) =>
    \A k \in 1..Len(preserved_parts.parts) :
      LET u == preserved_parts.parts[k]
      IN  ~u.part.thought =>
            /\ u.origin = LastMarkerFragment
            /\ u.part.text =
                 SubSeq(response_parts[u.origin].text,
                        LastMarkerEnd(response_parts[u.origin].text) + 1,
                        Len(response_parts[u.origin].text))

\* C14, amended: the split is made per fragment. When the marker occurs in
\* more than one fragment of a sequence of text fragments, each of those
\* fragments has its text through its own last marker hidden and its own
\* suffix visible, also when a later fragment holds another marker; a
\* fragment without the marker is hidden or visible as a whole.
C14_SplitPerFragment ==
  (p_pc = "done" /\ AllText /\ Cardinality(MarkerFragments) > 1) =>
    /\ \A k \in 1..Len(preserved_parts.parts) :
         LET u    == preserved_parts.parts[k]
             text == response_parts[u.origin].text
         IN  IF u.origin \in MarkerFragments
             THEN /\ u.part.thought =>
                       u.part.text = SubSeq(text, 1, LastMarkerEnd(text))
                  /\ ~u.part.thought =>
                       u.part.text = SubSeq(text, LastMarkerEnd(text) + 1, Len(text))
             ELSE u.part.text = text
    /\ \A i \in MarkerFragments :
         LET text == response_parts[i].text
         IN  /\ \E k \in UnitsOf(i) : preserved_parts.parts[k].part.thought
             /\ LastMarkerEnd(text) < Len(text) =>
                  \E k \in UnitsOf(i) : ~preserved_parts.parts[k].part.thought

\* C14 witness: two fragments hold the marker and the earlier one has a
\* non-empty suffix, which is visible.
C14_Witness ==
  /\ p_pc = "done"
  /\ AllText
  /\ Cardinality(MarkerFragments) > 1
  /\ \E k \in 1..Len(preserved_parts.parts) :
       /\ preserved_parts.parts[k].origin < LastMarkerFragment
       /\ preserved_parts.parts[k].origin \in MarkerFragments
       /\ ~preserved_parts.parts[k].part.thought

\* index of the last fragment of the function calls that follow one another
\* from the first named call on
RunEnd ==
  CHOOSE e \in FirstNamedCall..Len(response_parts) :
    /\ \A j \in FirstNamedCall..e : response_parts[j].function_call.present
    /\ (e < Len(response_parts) => ~response_parts[e + 1].function_call.present)

\* C15: when a response holds a function call with a non-empty name, no
\* output unit comes from a fragment after the end of the first function-call
\* run, the run's calls are output unchanged, once each and in input order,
\* and a function call followed by a text gives exactly the function call.
C15_FunctionCallRunIsTerminal ==
  (p_pc = "done" /\ FirstNamedCall <= Len(response_parts)) =>
    LET out == preserved_parts.parts
    IN  /\ \A k \in 1..Len(out) : out[k].origin <= RunEnd
        /\ \A k \in 1..Len(out) :
             out[k].origin >= FirstNamedCall =>
               /\ out[k].part = response_parts[out[k].origin]
               /\ out[k].part.function_call.present
               /\ \A l \in (k + 1)..Len(out) : out[l].origin > out[k].origin
        /\ \A j \in FirstNamedCall..RunEnd :
             response_parts[j].function_call.name # "" => UnitsOf(j) # {}
        /\ (/\ Len(response_parts) = 2
            /\ FirstNamedCall = 1
            /\ response_parts[2].has_text)
             => out = <<Preserved(response_parts[1], 1)>>

\* C15 witness: a named call, a text with a final answer, then another named
\* call: only the first call is output.
C15_Witness ==
  /\ p_pc = "done"
  /\ Len(response_parts) = 3
  /\ FirstNamedCall = 1
  /\ response_parts[2].has_text
  /\ Contains(response_parts[2].text, FINAL_ANSWER_TAG)
  /\ response_parts[3].function_call.present
  /\ response_parts[3].function_call.name # ""
  /\ preserved_parts.parts = <<Preserved(response_parts[1], 1)>>

\* the markers of the fixed reasoning set
ReasoningMarkers ==
  {THINK_TAG, INTUITION_TAG, HYPOTHESIS_TAG, PLAN_TAG, OBSERVATION_TAG,
   REFLECTION_TAG, REPLAN_TAG}

EmptyCall(i) ==
  /\ i \in 1..Len(response_parts)
  /\ response_parts[i].function_call.present
  /\ response_parts[i].function_call.name = ""

\* C17: a function call with an empty name is never output; met before any
\* run it does not stop the processing of the text after it, and met inside
\* a run it does not end the run: the named calls that follow it directly
\* are still output.
C17_EmptyNameCallsAreSkipped ==
  p_pc = "done" =>
    LET out == preserved_parts.parts
    IN  /\ \A k \in 1..Len(out) :
             out[k].part.function_call.present => out[k].part.function_call.name # ""
        /\ \A i \in 1..Len(response_parts) : EmptyCall(i) => UnitsOf(i) = {}
        /\ \A i \in 1..Len(response_parts) : \A j \in (i + 1)..Len(response_parts) :
             (EmptyCall(i) /\ i < FirstNamedCall /\ TextBeforeRun(j)) => UnitsOf(j) # {}
        /\ \A i \in 1..Len(response_parts) : \A j \in (i + 1)..Len(response_parts) :
             (/\ EmptyCall(i)
              /\ FirstNamedCall < i
              /\ \A m \in FirstNamedCall..j : response_parts[m].function_call.present
              /\ response_parts[j].function_call.name # "")
               => \E k \in 1..Len(out) :
                    /\ UnitsOf(j) = {k}
                    /\ out[k].part = response_parts[j]

\* C17 witness: named call, empty-name call, named call: both named calls
\* are output and nothing else.
C17_Witness ==
  /\ p_pc = "done"
  /\ Len(response_parts) = 3
  /\ FirstNamedCall = 1
  /\ EmptyCall(2)
  /\ response_parts[3].function_call.present
  /\ response_parts[3].function_call.name # ""
  /\ preserved_parts.parts =
       <<Preserved(response_parts[1], 1), Preserved(response_parts[3], 3)>>

\* ------------------------------------------- claims on the synthesis

\* the categories of the knowledge findings and of the execution results,
\* each with the root cause it stands for
KnowledgeCategories ==
  {<<delivery_terms, "Message delivery failure">>,
   <<rate_limit_terms, "API rate limiting">>,
   <<template_terms, "Template approval issues">>,
   <<webhook_terms, "Webhook/status update issues">>,
   <<phone_terms, "Phone number formatting issues">>}

ExecutionCategories ==
  {<<error_terms, "Technical execution errors">>,
   <<failed_status_terms, "Campaign delivery failure">>,
   <<audience_terms, "Audience targeting issues">>,
   <<configuration_terms, "Campaign configuration issues">>}

\* the root causes of the categories matched by the findings at hand
MatchedCauses ==
  {c[2] : c \in {k \in KnowledgeCategories : AnyIn(k[1], Lower(knowledge))}}
    \cup
  {c[2] : c \in {e \in ExecutionCategories : AnyIn(e[1], Lower(execution))}}

\* C20: with at least one matched category the analysis lists one root cause
\* per matched category, and its confidence is High when two or more
\* categories matched and Medium when exactly one did; "rate limit exceeded"
\* with empty execution results gives "API rate limiting" alone, Medium.
C20_ConfidenceByMatchedCategories ==
  s_pc = "done" =>
    /\ MatchedCauses # {} =>
         /\ analysis.status = "identified"
         /\ Len(analysis.root_causes) = Cardinality(MatchedCauses)
         /\ {analysis.root_causes[i] : i \in 1..Len(analysis.root_causes)} = MatchedCauses
         /\ Cardinality(MatchedCauses) >= 2 => analysis.confidence = "High"
         /\ Cardinality(MatchedCauses) = 1 => analysis.confidence = "Medium"
    /\ (knowledge = RateLimitExceeded /\ execution = <<>>) =>
         /\ analysis.root_causes = <<"API rate limiting">>
         /\ analysis.confidence = "Medium"

\* C20 witness: the rate-limit scenario has been analysed.
C20_Witness ==
  /\ s_pc = "done"
  /\ knowledge = RateLimitExceeded
  /\ execution = <<>>
  /\ analysis.root_causes = <<"API rate limiting">>
  /\ analysis.confidence = "Medium"

\* -------------------------------------------- claims on backend failure

\* the context block a specialist keeps in the session state
context_block(st, agent) ==
  CASE agent \in TechnicalFamily -> st.technical_context
    [] agent = Knowledge          -> st.knowledge_context
    [] agent = Ticket             -> st.ticket_context
    [] agent = FollowUp           -> st.followup_context

\* C18: when the backend fails while a specialist that retained control is
\* running, the turn leaves last_active_agent, conversation_context and the
\* specialist's context block as the turn found them, or updated in full
\* together with the completion mark.
C18_FailureLeavesStateWhole ==
  (pc = "idle" /\ failed) =>
    \/ /\ state.last_active_agent = turn_state.last_active_agent
       /\ state.conversation_context = turn_state.conversation_context
       /\ context_block(state, last_retainer) = context_block(turn_state, last_retainer)
    \/ /\ state.last_active_agent = last_retainer
       /\ state = finish_writes(state, last_retainer)

\* the first turn of a session reached the technical specialist and the
\* backend raised: the specialist is recorded as last active agent and the
\* query is in its block, while the block carries no completion mark
C18_PartialUpdate ==
  /\ pc = "idle"
  /\ failed
  /\ turns = 1
  /\ last_retainer = Technical
  /\ turn_state = EmptySession
  /\ state.last_active_agent = Technical
  /\ state.conversation_context = "technical"
  /\ state.technical_context.previous_queries # <<>>
  /\ ~state.technical_context.completed

\* ------------------------------------- claims on the final solution

\* the recommendation category that stands for the issue category of a root
\* cause in the second table, "" where that table has no such category
RecommendationFor ==
  [c \in {cat[2] : cat \in KnowledgeCategories \cup ExecutionCategories} |->
     CASE c = "Message delivery failure"      -> "Delivery Issues"
       [] c = "API rate limiting"             -> "Rate Limiting"
       [] c = "Template approval issues"      -> "Template Issues"
       [] c = "Webhook/status update issues"  -> "Webhook Configuration"
       [] c = "Technical execution errors"    -> "Error Resolution"
       [] c = "Audience targeting issues"     -> "Audience Targeting"
       [] c = "Campaign configuration issues" -> "Configuration"
       [] OTHER                               -> ""]

\* the root causes reported by the solution at hand
ReportedCauses ==
  {solution.root_cause_analysis.root_causes[i] :
     i \in 1..Len(solution.root_cause_analysis.root_causes)}

\* the categories recommended by the solution at hand
RecommendedCategories ==
  {solution.recommendations.recommendations[i].category :
     i \in 1..Len(solution.recommendations.recommendations)}

\* C21: the recommendations are parallel to the root causes: every reported
\* root cause has the recommendation of its category and every recommendation
\* has its root cause, so that the analysis lists a cause exactly when the
\* recommendations list a specific recommendation.
C21_RecommendationsParallelRootCauses ==
  f_pc = "solved" =>
    /\ \A c \in ReportedCauses : RecommendationFor[c] \in RecommendedCategories
    /\ \A r \in RecommendedCategories : \E c \in ReportedCauses : RecommendationFor[c] = r
    /\ (ReportedCauses # {}) <=> (RecommendedCategories # {})

\* a root cause is reported while the recommendations section says that no
\* specific recommendation is available
C21_CauseWithoutRecommendation ==
  /\ f_pc = "solved"
  /\ solution.root_cause_analysis.status = "identified"
  /\ solution.root_cause_analysis.root_causes = <<"Message delivery failure">>
  /\ solution.recommendations.status = "no_specific_recommendations"

\* C22: the synthesis degrades: every session state, with the findings keys
\* absent, blank or held, gets a report; with both findings blank the
\* root-cause section is the insufficient-data result, and with no category
\* matched and a findings text that is not blank it is the no-clear-root-cause
\* result.
C22_SynthesisDegrades ==
  f_pc = "solved" =>
    LET k == IF session_given.knowledge_findings.present
             THEN session_given.knowledge_findings.value ELSE <<>>
        e == IF session_given.execution_results.present
             THEN session_given.execution_results.value ELSE <<>>
        blank(t) == \A i \in 1..Len(t) : t[i] \in WhiteChars
        matched  == \/ \E c \in KnowledgeCategories : AnyIn(c[1], Lower(k))
                    \/ \E c \in ExecutionCategories : AnyIn(c[1], Lower(e))
    IN  /\ solution.root_cause_analysis.status
             \in {"insufficient_data", "no_clear_root_cause", "identified"}
        /\ (blank(k) /\ blank(e)) =>
             solution.root_cause_analysis.status = "insufficient_data"
        /\ (~matched /\ ~(blank(k) /\ blank(e))) =>
             solution.root_cause_analysis.status = "no_clear_root_cause"

\* C22 witness: knowledge_findings is absent and execution_results holds only
\* white space: the report is made and says insufficient data.
C22_Witness ==
  /\ f_pc = "solved"
  /\ ~session_given.knowledge_findings.present
  /\ session_given.execution_results.present
  /\ session_given.execution_results.value = <<" ">>
  /\ solution.root_cause_analysis.status = "insufficient_data"
  /\ ~solution.knowledge_section.found
  /\ ~solution.execution_section.found

\* a solution with the values of its timestamp fields blanked; whether a
\* timestamp is written at all is kept
WithoutTimestamps(s) ==
  [s EXCEPT !.timestamp = 0,
            !.analysis_timestamp = IF @ = NoTimestamp THEN NoTimestamp ELSE 0,
            !.recommendations_timestamp = IF @ = NoTimestamp THEN NoTimestamp ELSE 0]

Lines == solution.recommendations.lines

\* rank of a section of the recommendations output
SectionRank ==
  [s \in {"HIGH PRIORITY ACTIONS", "MEDIUM PRIORITY ACTIONS",
          "IMMEDIATE ACTIONS", "PREVENTIVE MEASURES"} |->
     CASE s = "HIGH PRIORITY ACTIONS"   -> 1
       [] s = "MEDIUM PRIORITY ACTIONS" -> 2
       [] s = "IMMEDIATE ACTIONS"       -> 3
       [] s = "PREVENTIVE MEASURES"     -> 4]

\* the recommendation categories in declaration order, knowledge categories
\* before execution categories, each with its fixed priority
DeclaredCategories ==
  <<<<"Delivery Issues", "High">>, <<"Rate Limiting", "High">>,
    <<"Template Issues", "Medium">>, <<"Webhook Configuration", "Medium">>,
    <<"Error Resolution", "High">>, <<"Configuration", "Medium">>,
    <<"Audience Targeting", "High">>>>

\* position of a category in the declaration order
DeclaredAt(category) ==
  CHOOSE i \in 1..Len(DeclaredCategories) : DeclaredCategories[i][1] = category

\* C24: in a recommendations output that lists recommendations the sections
\* come in the order high, medium, immediate actions, preventive measures;
\* every recommendation has priority High or Medium and is written once, in
\* the group of its priority; within a group the entries follow the
\* declaration order of the categories.
C24_RecommendationsGroupedByPriority ==
  (f_pc = "solved" /\ solution.recommendations.status = "listed") =>
    LET recs == solution.recommendations.recommendations
        group(p) == IF p = "High" THEN "HIGH PRIORITY ACTIONS"
                    ELSE "MEDIUM PRIORITY ACTIONS"
    IN  /\ \A k \in 1..Len(Lines) : \A l \in (k + 1)..Len(Lines) :
             SectionRank[Lines[k].section] <= SectionRank[Lines[l].section]
        /\ \A i \in 1..Len(recs) :
             /\ recs[i].priority \in {"High", "Medium"}
             /\ recs[i].priority = DeclaredCategories[DeclaredAt(recs[i].category)][2]
             /\ Cardinality({k \in 1..Len(Lines) :
                               /\ Lines[k].number > 0
                               /\ Lines[k].text = recs[i].category}) = 1
             /\ \E k \in 1..Len(Lines) :
                  /\ Lines[k].number > 0
                  /\ Lines[k].text = recs[i].category
                  /\ Lines[k].section = group(recs[i].priority)
        /\ \A k \in 1..Len(Lines) : \A l \in (k + 1)..Len(Lines) :
             (Lines[k].number > 0 /\ Lines[l].section = Lines[k].section) =>
               /\ Lines[l].number = Lines[k].number + (l - k)
               /\ DeclaredAt(Lines[k].text) < DeclaredAt(Lines[l].text)
        /\ \A k \in 1..Len(Lines) :
             Lines[k].number > 0 =>
               \E i \in 1..Len(recs) : recs[i].category = Lines[k].text

\* C24 witness: a Medium knowledge category declared before a High execution
\* category: the High entry is written first, then the Medium one, then the
\* immediate actions.
C24_Witness ==
  /\ f_pc = "solved"
  /\ Len(solution.recommendations.recommendations) = 2
  /\ solution.recommendations.recommendations[1].category = "Template Issues"
  /\ solution.recommendations.recommendations[2].category = "Error Resolution"
  /\ Len(Lines) = 4
  /\ Lines[1] = OutputLine("HIGH PRIORITY ACTIONS", 1, "Error Resolution")
  /\ Lines[2] = OutputLine("MEDIUM PRIORITY ACTIONS", 1, "Template Issues")
  /\ Lines[3].section = "IMMEDIATE ACTIONS"
  /\ Lines[4].section = "IMMEDIATE ACTIONS"

\* ------------------------------------- claims on the session's records

\* C25: with ConversationManager as the root, every user turn of the session
\* has appended exactly one entry to conversation_history, of role user and
\* with that turn's utterance as content, whichever agent held the
\* conversation when the turn arrived.
C25_EveryTurnAppendsItsUtterance ==
  (wiring = "deterministic" /\ pc = "idle") =>
    /\ Len(state.conversation_history) = turns
    /\ turns > 0 =>
         /\ Last(state.conversation_history).role = "user"
         /\ Last(state.conversation_history).content =
              _extract_latest_user_message(utterance)

\* two turns are over and conversation_history holds one entry: the second
\* turn went to the specialist that held the conversation and ended there
C25_TurnWithoutEntry ==
  /\ wiring = "deterministic"
  /\ pc = "idle"
  /\ turns = 2
  /\ holder \in specialist_agents
  /\ last_retainer = holder
  /\ ~failed
  /\ Len(state.conversation_history) = 1
  /\ \A i \in 1..Len(events) : events[i].author = holder

\* the domain whose context block a specialist works on
block_domain(agent) ==
  CASE agent \in TechnicalFamily -> "technical_context"
    [] agent = Knowledge          -> "knowledge_context"
    [] agent = Ticket             -> "ticket_context"
    [] agent = FollowUp           -> "followup_context"

\* one step of the run of specialist a in which it decides to keep control
\* and writes its state, up to the start of the backend
RetainStep(a) == pc = "run" /\ running = a /\ pc' = "backend"

\* one step of the run of specialist a that ends its run in a transfer
TransferStep(a) == pc = "run" /\ running = a /\ pc' = "route"

\* the context block of agent a over one step: created when absent, one
\* query appended (followup_count raised by one), nothing else touched
BlockGrownByOne(a) ==
  LET old == context_block(state, a)
      new == context_block(state', a)
  IN  IF a = FollowUp
      THEN new = [present |-> TRUE, followup_count |-> old.followup_count + 1,
                  last_handled |-> old.last_handled]
      ELSE new = [present |-> TRUE,
                  previous_queries |-> Append(old.previous_queries, state.current_query),
                  completed |-> old.completed]

\* the context block of agent a over one step: neither created nor removed,
\* and its queries (its followup_count) as they were
BlockKept(a) ==
  LET old == context_block(state, a)
      new == context_block(state', a)
  IN  /\ new.present = old.present
      /\ IF a = FollowUp THEN new.followup_count = old.followup_count
                         ELSE new.previous_queries = old.previous_queries

\* C26: a specialist context block is created by the first step in which a
\* specialist of its domain keeps control and is never removed or started
\* anew; every such step appends exactly one query (raises followup_count by
\* one), and every other step, a run that ends in a transfer among them,
\* leaves the block's existence and queries as they were.
C26_ContextBlocksGrowOnRetainOnly ==
  [][\A a \in specialist_agents :
       /\ RetainStep(a) => BlockGrownByOne(a)
       /\ TransferStep(a) => context_block(state', a) = context_block(state, a)
       /\ (~\E b \in specialist_agents :
              RetainStep(b) /\ block_domain(b) = block_domain(a))
            => BlockKept(a)]_vars

\* C26 witness: the technical block exists with two queries, appended by two
\* turns the technical specialist kept, and the second turn is at its backend.
C26_Witness ==
  /\ turns = 2
  /\ pc = "backend"
  /\ running = Technical
  /\ state.technical_context.present
  /\ Len(state.technical_context.previous_queries) = 2
  /\ ~state.knowledge_context.present
  /\ ~state.ticket_context.present

\* --------------------------------- claims on the legacy orchestrator

\* the texts of the events consumed from one sub-call of the current turn,
\* each followed by a newline, in the order they were consumed
RECURSIVE TextOf(_, _)
TextOf(call, consumed) ==
  IF consumed = <<>> THEN <<>>
  ELSE (IF Head(consumed).call = call /\ Head(consumed).event.text # <<>>
        THEN Head(consumed).event.text \o <<"\n">> ELSE <<>>)
       \o TextOf(call, Tail(consumed))

\* position of the first occurrence of a step in the log of the turn, 0 when
\* the step has not happened
LogAt(step) ==
  IF \E i \in 1..Len(l_log) : l_log[i] = step
  THEN CHOOSE i \in 1..Len(l_log) :
         l_log[i] = step /\ \A j \in 1..(i - 1) : l_log[j] # step
  ELSE 0

\* C27: on the technical path of the legacy orchestrator the knowledge
\* sub-call is consumed to its end and knowledge_findings written before
\* the execution sub-call starts; execution_results is written before the
\* solution is generated; the solution is generated from exactly these two
\* values; it is stored as response with phase technical_complete and
\* yielded as the last event of the turn.
C27_TechnicalPathInOrder ==
  (l_intent = "technical_debug" /\ l_pc # "off") =>
    LET knowledge_text == TextOf("knowledge", l_consumed)
        execution_text == TextOf("execution", l_consumed)
    IN  /\ \A i \in 1..Len(l_consumed) : \A j \in (i + 1)..Len(l_consumed) :
             l_consumed[i].call = "execution" => l_consumed[j].call = "execution"
        /\ LogAt("execution_started") > 0 =>
             /\ LogAt("knowledge_exhausted") > 0
             /\ LogAt("knowledge_exhausted") < LogAt("knowledge_findings_written")
             /\ LogAt("knowledge_findings_written") < LogAt("execution_started")
             /\ \A i \in 1..Len(l_log) :
                  l_log[i] = "knowledge_event" => i < LogAt("knowledge_exhausted")
             /\ l_state.knowledge_findings = Held(knowledge_text)
        /\ l_pc \in {"emit", "idle"} =>
             /\ LogAt("execution_started") > 0
             /\ LogAt("execution_started") < LogAt("execution_exhausted")
             /\ LogAt("execution_exhausted") < LogAt("execution_results_written")
             /\ LogAt("execution_results_written") < LogAt("solution_generated")
             /\ LogAt("solution_generated") < LogAt("response_written")
             /\ l_state.execution_results = Held(execution_text)
             /\ l_state.phase = Held("technical_complete")
             /\ l_state.response.present
             /\ l_state.response.value.kind = "solution"
             /\ LET report == l_state.response.value.report
                IN  /\ report.knowledge_section = findings_section(knowledge_text)
                    /\ report.execution_section = findings_section(execution_text)
                    /\ report.root_cause_analysis =
                         analyze_root_cause(knowledge_text, execution_text)
                    /\ report.recommendations =
                         generate_recommendations(knowledge_text, execution_text)
        /\ l_pc = "idle" =>
             /\ Len(l_events) = 2
             /\ l_log[Len(l_log)] = "response_emitted"
             /\ l_events[Len(l_events)].author = LegacyName
             /\ l_events[Len(l_events)].content.kind = "solution"
             /\ l_events[Len(l_events)].content = l_state.response.value

\* C27 witness: a technical turn is over; both sub-calls yielded a text and
\* the solution built from the two texts is the last event.
C27_Witness ==
  /\ l_pc = "idle"
  /\ l_intent = "technical_debug"
  /\ Len(l_consumed) = 2
  /\ l_consumed[1].call = "knowledge"
  /\ l_consumed[1].event.text # <<>>
  /\ l_consumed[2].call = "execution"
  /\ l_consumed[2].event.text # <<>>
  /\ l_state.knowledge_findings.value # <<>>
  /\ l_state.execution_results.value # <<>>
  /\ Len(l_events) = 2
  /\ l_events[2].content.kind = "solution"
  /\ l_events[2].content.report.root_cause_analysis.status = "identified"

\* ---------------------------------------------- claims on cancellation

\* the completion mark of a specialist's context block: the completed flag,
\* for FollowUpSpecialist the last query handled
completion_mark(st, agent) ==
  IF agent = FollowUp THEN <<"last_handled", st.followup_context.last_handled>>
  ELSE <<"completed", context_block(st, agent).completed>>

\* C28: when the consumer stops pulling events while a specialist is
\* suspended at a yield, before the backend's events are exhausted, the turn
\* does not set the completion mark of the specialist's block, and no write
\* to the session state happens at or after the abandonment.
C28_AbandonedTurnCommitsNothing ==
  [][/\ (abandoned' /\ ~abandoned) =>
          /\ completion_mark(state', running) = completion_mark(turn_state, running)
          /\ state' = state
     /\ (abandoned /\ turns' = turns) => state' = state]_vars

\* C28 witness: the WhatsApp specialist kept control, wrote its query and
\* yielded a backend event; the consumer stopped there and the block carries
\* no completion mark.
C28_Witness ==
  /\ pc = "idle"
  /\ abandoned
  /\ last_retainer = WhatsApp
  /\ state.technical_context.present
  /\ state.technical_context.previous_queries # <<>>
  /\ ~state.technical_context.completed
  /\ \E i \in 1..Len(events) : events[i].kind = "backend" /\ events[i].author = WhatsApp

\* ---------------------------------------------- claims on transfer targets

\* the targets of the transfers emitted so far in the turn
EmittedTargets ==
  {events[i].target : i \in {j \in 1..Len(events) : events[j].kind = "transfer"}}

\* C29: every target of a transfer that the root's routes or a specialist's
\* transfer decision emit is the registered name of an agent of the
\* addressable set: the root's name or the name of one of the six specialists.
C29_TransferTargetsAreRegistered ==
  EmittedTargets \subseteq Addressable

\* C29 divergence: KnowledgeSpecialist holds the conversation, the user
\* thanks it, and the specialist hands the turn to a name that no registered
\* agent carries; the router ends the turn with an error.
C29_UnregisteredTarget ==
  /\ pc = "idle"
  /\ Len(events) >= 2
  /\ LET transfer == events[Len(events) - 1]
     IN  /\ transfer.kind = "transfer"
         /\ transfer.author = Knowledge
         /\ transfer.target = "ConversationManager"
         /\ transfer.target \notin Addressable
  /\ events[Len(events)].kind = "routing_error"
  /\ holder = Knowledge

\* ---------------------------------------------- claims on transfer chains

\* the authors of the transfers emitted so far in the turn, in order
TransferAuthors ==
  LET transfers == SelectSeq(events, LAMBDA e : e.kind = "transfer")
  IN  [i \in 1..Len(transfers) |-> transfers[i].author]

\* C30: with deterministic agents, the chain of transfers of one turn ends at
\* an agent that retains control: a transfer never hands the turn to an
\* agent under inputs of its decision under which the agent was already given
\* the turn, which would repeat the chain from there forever.
C30_TransferChainEnds ==
  (/\ pc = "route"
   /\ wiring = "deterministic"
   /\ PendingTarget \in Addressable)
    => decision_inputs(PendingTarget, utterance, state) \notin entered

\* C30 divergence: on "explain api" TechnicalTroubleshootAgent hands the turn
\* to KnowledgeSpecialist and KnowledgeSpecialist hands it back, on the same
\* current_query under which TechnicalTroubleshootAgent transferred before.
C30_SpecialistsTransferToEachOther ==
  /\ pc = "route"
  /\ wiring = "deterministic"
  /\ state.current_query = TurnUtteranceList[11]
  /\ Len(TransferAuthors) >= 3
  /\ LET n == Len(TransferAuthors)
     IN  /\ TransferAuthors[n - 1] = Technical
         /\ TransferAuthors[n] = Knowledge
  /\ PendingTarget = Technical
  /\ decision_inputs(Technical, utterance, state) \in entered
  /\ _should_transfer_control(Technical, state.current_query)
       = <<TRUE, Knowledge>>
  /\ _should_transfer_control(Knowledge, state.current_query)
       = <<TRUE, Technical>>

\* ------------------------------------ claims on the deployed wiring

\* the previous_queries lists of the three context blocks
AllPreviousQueries ==
  {state.technical_context.previous_queries,
   state.knowledge_context.previous_queries,
   state.ticket_context.previous_queries}

\* C31: with LlmConversationManager as the root, current_query is never
\* written; every specialist reads it as the empty string, never emits a
\* transfer, and appends the empty string to previous_queries.
C31_LlmWiringDecidesOnEmptyQuery ==
  wiring = "llm" =>
    /\ state.current_query = <<>>
    /\ cq_writes = 0
    /\ \A i \in 1..Len(reads) : reads[i] = <<>>
    /\ \A a \in specialist_agents : ~EmittedTransfer(a)
    /\ \A a \in specialist_agents :
         _should_transfer_control(a, state.current_query) = Retain
    /\ \A q \in AllPreviousQueries : \A i \in 1..Len(q) : q[i] = <<>>

\* C31 witness: under the deployed wiring the root routed "explain api" to
\* TechnicalTroubleshootAgent, which decided on the empty string, retained
\* control and appended the empty string.
C31_Witness ==
  /\ wiring = "llm"
  /\ pc = "idle"
  /\ utterance = TurnUtteranceList[11]
  /\ last_retainer = Technical
  /\ reads = << <<>> >>
  /\ state.technical_context.previous_queries = << <<>> >>
  /\ _should_transfer_control(Technical, utterance)[1]

\* ---------------------------------------- claims on the completion flag

\* the specialists that keep a context block with a completion flag
BlockOwners == specialist_agents \ {FollowUp}

\* C32: the completion flag of a context block is true only if the most
\* recent turn retained by a specialist of that domain consumed the backend's
\* events to the end; it is not true while a later investigation is in
\* progress or after one was abandoned or failed.
C32_CompletionFlagIsCurrent ==
  \A a \in BlockOwners :
    context_block(state, a).completed => specialist_context(a) \in consumed_to_end

\* C32 divergence: TechnicalTroubleshootAgent finished one investigation and
\* retained a later turn; its backend has not finished, and the flag of the
\* first investigation is still true.
C32_StaleCompletionFlag ==
  /\ pc = "backend"
  /\ running = Technical
  /\ Len(state.technical_context.previous_queries) >= 2
  /\ state.technical_context.completed
  /\ specialist_context(Technical) \notin consumed_to_end

\* ------------------------------------ claims on visible planner output

\* the markers a visible unit must not show: the final-answer marker and the
\* reasoning set
HiddenMarkers == {FINAL_ANSWER_TAG} \cup ReasoningMarkers

\* a visible text unit of the output
IsVisibleText(u) ==
  /\ u.part.has_text
  /\ ~u.part.function_call.present
  /\ ~u.part.thought

\* C33: no output unit of process_planning_response that is tagged visible
\* contains the final-answer marker or a marker of the reasoning set, also
\* when a reasoning marker follows the last final-answer marker of a fragment.
C33_NoReasoningInVisibleOutput ==
  p_pc = "done" =>
    \A k \in 1..Len(preserved_parts.parts) :
      IsVisibleText(preserved_parts.parts[k]) =>
        \A tag \in HiddenMarkers : ~Contains(preserved_parts.parts[k].part.text, tag)

\* C33 divergence: the fragment "b /*FINAL_ANSWER*/ c /*THINK*/ d" is split
\* at its final-answer marker and the suffix, which holds /*THINK*/, is
\* emitted as a visible unit.
C33_ReasoningMarkerShown ==
  /\ p_pc = "done"
  /\ response_parts = <<TextPart(FragmentTexts[8])>>
  /\ Len(preserved_parts.parts) = 2
  /\ preserved_parts.parts[1].part.thought
  /\ IsVisibleText(preserved_parts.parts[2])
  /\ Contains(preserved_parts.parts[2].part.text, THINK_TAG)

C35_LegacyTurnEmitsBannerAndResponse ==
  (l_pc = "idle" /\ l_turns > 0) =>
    /\ Len(l_events) = 2
    /\ \A i \in 1..Len(l_events) : l_events[i].author = LegacyName
    /\ l_events[1].content.kind = "hello"
    /\ l_state.response.present
    /\ l_events[2].content = l_state.response.value

\* C35 divergence: a knowledge-only turn whose sub-call yielded only an event
\* without text: the response written is the empty text and the turn ends
\* with the hello banner as its only event.
C35_TurnWithBannerOnly ==
  /\ l_pc = "idle"
  /\ l_intent = "knowledge_only"
  /\ Len(l_consumed) = 1
  /\ l_consumed[1].event.text = <<>>
  /\ l_state.response = Held(Response("knowledge", <<>>, <<>>))
  /\ l_state.phase = Held("knowledge_complete")
  /\ Len(l_events) = 1
  /\ l_events[1].content.kind = "hello"

\* ------------------------------------ claims on conversation_history

\* the sequence index a history entry carries: its timestamp field read as a
\* number
IndexOf(entry) == CHOOSE n \in 0..9 : str(n) = entry.timestamp

\* C36: every entry of conversation_history carries an index strictly
\* greater than the index of every earlier entry of the session.
C36_HistoryIndexIncreases ==
  LET history == state.conversation_history
  IN  \A i \in 1..Len(history) : \A j \in (i + 1)..Len(history) :
        IndexOf(history[j]) > IndexOf(history[i])

\* C36 divergence: two turns went through the root; both entries carry the
\* index 0 although their contents differ.
C36_EntriesShareIndex ==
  /\ wiring = "deterministic"
  /\ pc = "idle"
  /\ turns = 2
  /\ Len(state.conversation_history) = 2
  /\ state.conversation_history[1].timestamp = "0"
  /\ state.conversation_history[2].timestamp = "0"
  /\ state.conversation_history[1].content # state.conversation_history[2].content

\* ------------------------------- claims on the execution categories

\* the root causes the analysis reports, as a set
Reported == {analysis.root_causes[i] : i \in 1..Len(analysis.root_causes)}

\* C37: 'Campaign delivery failure' never appears alone: whenever the
\* execution results match 'status: failed' or 'delivery_status: failed',
\* 'Technical execution errors' is reported too and the confidence is High;
\* confidence Medium comes with exactly one root cause, one of the other
\* categories.
C37_DeliveryFailureNeverAlone ==
  s_pc = "done" =>
    /\ (Strip(execution) # <<>> /\ AnyIn(failed_status_terms, Lower(execution))) =>
         /\ "Campaign delivery failure" \in Reported
         /\ "Technical execution errors" \in Reported
         /\ analysis.confidence = "High"
    /\ "Campaign delivery failure" \in Reported =>
         /\ "Technical execution errors" \in Reported
         /\ analysis.confidence = "High"
    /\ analysis.confidence = "Medium" =>
         /\ Len(analysis.root_causes) = 1
         /\ analysis.root_causes[1] # "Campaign delivery failure"

\* C37 witness: execution results "status: failed" with empty knowledge
\* findings give both execution categories and confidence High.
C37_Witness ==
  /\ s_pc = "done"
  /\ knowledge = <<>>
  /\ execution = FindingPhrases[3]
  /\ analysis.root_causes = <<"Technical execution errors", "Campaign delivery failure">>
  /\ analysis.confidence = "High"

\* ------------------------------- claims on conversation_context

\* the values conversation_context takes
ContextValues ==
  {"", "greeting", "clarification", "general", "knowledge", "technical", "ticket"}

\* the conversation_context the root's route of an intent writes
RouteContext(intent) ==
  CASE intent = "greeting"                  -> "greeting"
    [] intent = "knowledge_search"          -> "knowledge"
    [] intent = "technical_troubleshooting" -> "technical"
    [] intent = "ticket_analysis"           -> "ticket"
    [] intent = "clarification"             -> "clarification"
    [] OTHER                                -> "general"

\* the intent the root gives the turn at hand
RootIntentNow ==
  _classify_intent(_extract_latest_user_message(utterance),
                   state.conversation_context, state.last_active_agent)

\* the root's run, one step
RootStep == pc = "run" /\ running = RootName /\ wiring = "deterministic" /\ pc' # "run"

\* the step in which specialist a retains control
RetainingStep(a) == pc = "run" /\ running = a /\ pc' = "backend"

\* the session state with the keys of a set replaced by those of another state
WithKeysOf(st, other, keys) ==
  [k \in DOMAIN st |-> IF k \in keys THEN other[k] ELSE st[k]]

\* C38: the root's follow-up route and FollowUpSpecialist retaining control
\* leave conversation_context as it is, writing only transfer_reason, and
\* last_active_agent and followup_context; every other root route and every
\* other retaining specialist overwrites conversation_context; hence
\* conversation_context is unset or one of greeting, clarification, general,
\* knowledge, technical, ticket.
C38_FollowUpLeavesContext ==
  [][/\ (RootStep /\ RootIntentNow = "followup") =>
          /\ state'.conversation_context = state.conversation_context
          /\ state' = WithKeysOf(state, state',
                        {"current_query", "conversation_history", "transfer_reason"})
     /\ (RootStep /\ RootIntentNow # "followup") =>
          state'.conversation_context = RouteContext(RootIntentNow)
     /\ RetainingStep(FollowUp) =>
          /\ state'.conversation_context = state.conversation_context
          /\ state' = WithKeysOf(state, state',
                        {"last_active_agent", "followup_context"})
     /\ \A a \in specialist_agents \ {FollowUp} :
          RetainingStep(a) =>
            /\ state'.conversation_context = specialist_context(a)
            /\ state'.conversation_context # ""
     /\ state'.conversation_context \in ContextValues]_vars

\* C38 witness: a technical turn, then "campaign thanks": the specialist
\* hands the turn to the root, the root routes it as a follow-up and
\* FollowUpSpecialist retains it; conversation_context is still "technical".
C38_Witness ==
  /\ pc = "idle"
  /\ turns = 2
  /\ EmittedTransfer(RootName)
  /\ last_retainer = FollowUp
  /\ state.last_active_agent = FollowUp
  /\ state.transfer_reason = "followup_question"
  /\ state.followup_context.followup_count = 1
  /\ state.conversation_context = "technical"

\* --------------------------- claims on the report's investigation phase

\* C39: a report built by generate_final_solution for the legacy
\* orchestrator always shows the investigation phase 'unknown': the session
\* key investigation_phase is never written, progress is kept under phase.
C39_ReportPhaseIsUnknown ==
  /\ l_pc # "off" => ~l_state.investigation_phase.present
  /\ (l_state.response.present /\ l_state.response.value.kind = "solution") =>
       l_state.response.value.report.investigation_phase = "unknown"
  /\ \A i \in 1..Len(l_events) :
       l_events[i].content.kind = "solution" =>
         l_events[i].content.report.investigation_phase = "unknown"

\* C39 witness: the second technical turn of a session is over; phase holds
\* technical_complete, and the report emitted shows the phase 'unknown'.
C39_Witness ==
  /\ l_pc = "idle"
  /\ l_turns = 2
  /\ l_intent = "technical_debug"
  /\ l_state.phase = Held("technical_complete")
  /\ Len(l_events) = 2
  /\ l_events[2].content.kind = "solution"
  /\ l_events[2].content.report.investigation_phase = "unknown"

=============================================================================
